---- MODULE Spec2Model ----
(***************************************************************************)
(* Physician scheduler: the domain model (src/src/data_models.py), the     *)
(* constraint compiler (src/src/constraints.py) and the orchestrator       *)
(* (src/src/scheduler.py).                                                 *)
(*                                                                         *)
(* Conventions of the model                                                *)
(*  - A string that the code builds with '_' as separator is the sequence  *)
(*    of its '_'-separated parts, so two keys are equal exactly when the   *)
(*    Python strings are equal, and str.split('_') is the identity on      *)
(*    that sequence.                                                       *)
(*  - A date is its day number from 2024-01-01 (a Monday), day 1.          *)
(*  - An FTE fraction is an integer number of thousandths.                 *)
(*  - A stored day budget (a Python float, in days) is an integer number   *)
(*    of hundredths of a day, so int(days * 2) is a real truncation.       *)
(*  - The CP-SAT model is the set of its boolean variables and the set of  *)
(*    its linear constraints, with an optional objective; the external     *)
(*    solver returns a status and, when it found a solution, an            *)
(*    assignment satisfying every constraint (CpSolver_Solve).             *)
(***************************************************************************)
EXTENDS Integers, Sequences, FiniteSets, TLC

VARIABLES
    input_data,   \* the SchedulingInput handed to the builder / scheduler
    variables,    \* self.variables: the keys of the decision-variable dict
    model,        \* self.model: NoModel or the CP-SAT model under construction
    solver,       \* self.solver: NoSolver or the outcome of the last Solve
    applied,      \* the stages run on the current model (history)
    call,         \* the last PhysicianScheduler call and how it ended (history)
    terms         \* the builder's fairness_penalties and spacing_rewards lists

vars == <<input_data, variables, model, solver, applied, call, terms>>

----------------------------------------------------------------------------
(* Bounds of the model                                                     *)

MaxPhysicians == 3
MaxDays == 2
MaxRoles == 4
MaxKeys == 4

----------------------------------------------------------------------------
(* data_models.py: enumerations                                            *)

MORNING == "morning"
AFTERNOON == "afternoon"
HalfDayPeriod == {MORNING, AFTERNOON}

PATHOLOGY == "pathology"
CLINICAL == "clinical"
ADMINISTRATIVE == "administrative"
RESEARCH_CAT == "research"
TIME_OFF == "time_off"
RoleCategory == {PATHOLOGY, CLINICAL, ADMINISTRATIVE, RESEARCH_CAT, TIME_OFF}

\* RoleCategory.value split at '_'
CategoryValue(c) ==
    IF c = TIME_OFF THEN <<"time", "off">> ELSE <<c>>

Role == {"ADMIN", "IMF", "DP", "DPD", "DPWG", "DPED", "RESEARCH", "EDUCATION",
         "OSD", "NVC", "TRIP", "VACATION", "SDO"}

\* Role.value split at '_'
RoleValue(r) ==
    CASE r = "ADMIN"     -> <<"admin">>
      [] r = "IMF"       -> <<"imuno dermatology">>
      [] r = "DP"        -> <<"dp", "dermatopathology">>
      [] r = "DPD"       -> <<"dpd", "dermatopathology", "person", "of", "day">>
      [] r = "DPWG"      -> <<"dpwg", "dermpath", "working", "group">>
      [] r = "DPED"      -> <<"dped", "dermpath", "education">>
      [] r = "RESEARCH"  -> <<"research">>
      [] r = "EDUCATION" -> <<"education">>
      [] r = "OSD"       -> <<"osd">>
      [] r = "NVC"       -> <<"nvc">>
      [] r = "TRIP"      -> <<"trip">>
      [] r = "VACATION"  -> <<"vacation">>
      [] r = "SDO"       -> <<"scheduled", "day", "off">>

\* Role.category
category(r) ==
    CASE r \in {"IMF", "DP", "DPD", "DPWG", "DPED", "EDUCATION"} -> PATHOLOGY
      [] r \in {"OSD", "NVC"}                                    -> CLINICAL
      [] r = "ADMIN"                                             -> ADMINISTRATIVE
      [] r = "RESEARCH"                                          -> RESEARCH_CAT
      [] r \in {"TRIP", "VACATION", "SDO"}                       -> TIME_OFF

\* Role.get_roles_by_category
get_roles_by_category(c) == {r \in Role : category(r) = c}

\* role.value.startswith('dp'): the first part of the value begins with "dp"
\* exactly for the parts "dp", "dpd", "dpwg" and "dped".
startswith_dp(r) == RoleValue(r)[1] \in {"dp", "dpd", "dpwg", "dped"}

----------------------------------------------------------------------------
(* Calendar                                                                *)

\* day.strftime('%Y-%m-%d') for the days of the model's horizon
DayStrings == <<"2024-01-01", "2024-01-02", "2024-01-03", "2024-01-04",
                "2024-01-05", "2024-01-06", "2024-01-07", "2024-01-08",
                "2024-01-09">>

Dates == 1..Len(DayStrings)

strftime(day) == DayStrings[day]

\* date.weekday(): 0 = Monday ... 6 = Sunday; 2024-01-01 is a Monday
weekday(day) == (day - 1) % 7

----------------------------------------------------------------------------
(* Keys of the decision variables                                          *)

\* f"{physician.name}_{day_str}_{period.value}_{role.value}"
var_name(physician, day, period, role) ==
    physician.name \o <<strftime(day), period>> \o RoleValue(role)

\* f"{physician.name}_{day.strftime('%Y-%m-%d')}_{role.value}"
scheduler_var_name(physician, day, role) ==
    physician.name \o <<strftime(day)>> \o RoleValue(role)

\* f"{physician.name}_{day_str}_{period.value}_{category.value}_active"
category_var_name(physician, day, period, c) ==
    physician.name \o <<strftime(day), period>> \o CategoryValue(c) \o <<"active">>

Range(s) == {s[i] : i \in 1..Len(s)}

\* The dict the tests and PhysicianScheduler.create_model build
scheduler_variables(inp) ==
    {scheduler_var_name(p, d, r) :
        p \in Range(inp.physicians), d \in Range(inp.calendar_days), r \in inp.roles}

\* A dict with one key per (physician, day, period, role)
period_variables(inp) ==
    UNION {{var_name(p, d, per, r) : per \in HalfDayPeriod, r \in inp.roles} :
        p \in Range(inp.physicians), d \in Range(inp.calendar_days)}

----------------------------------------------------------------------------
(* The CP-SAT model: linear constraints over 0/1 variables                 *)

NoModel == [none |-> TRUE]
NoSolver == [none |-> TRUE]
NoCall == [none |-> TRUE]

\* a ConstraintBuilder on which no stage has set a penalty or reward list
NoTerms == [fairness_penalties |-> {}, spacing_rewards |-> {}]

\* a model on which Minimize / Maximize was never called
NoObjective == [none |-> TRUE]

\* model.Minimize(sum(vs))
Minimize(m, vs) == [m EXCEPT !.objective = [minimize |-> vs]]

\* Python's sum() over the values of a finite function
RECURSIVE SumFn(_)
SumFn(f) ==
    IF DOMAIN f = {} THEN 0
    ELSE LET x == CHOOSE y \in DOMAIN f : TRUE
         IN f[x] + SumFn([y \in DOMAIN f \ {x} |-> f[y]])

\* A constraint is [coef |-> (variable :> coefficient ...), rel, rhs]
Linear(coef, rel, rhs) == [coef |-> coef, rel |-> rel, rhs |-> rhs]

\* sum(vs) as a coefficient function
Ones(vs) == [v \in vs |-> 1]

Lhs(c, a) == SumFn([v \in DOMAIN c.coef |-> c.coef[v] * a[v]])

Holds(c, a) ==
    CASE c.rel = "<=" -> Lhs(c, a) <= c.rhs
      [] c.rel = "==" -> Lhs(c, a) = c.rhs
      [] c.rel = ">=" -> Lhs(c, a) >= c.rhs

Satisfies(a, m) == \A c \in m.constraints : Holds(c, a)

\* cp_model.CpModel() holding the booleans of the variable dict
NewModel(vs) ==
    [bool_vars |-> vs, int_vars |-> <<>>, constraints |-> {}, objective |-> NoObjective]

\* model.NewIntVar(lo, hi, name) for the names of doms, each with its <<lo, hi>>
NewIntVars(m, doms) == [m EXCEPT !.int_vars = doms @@ m.int_vars]

\* model.NewBoolVar / model.Add for a whole stage
Extend(m, new_vars, new_constraints) ==
    [m EXCEPT !.bool_vars = m.bool_vars \cup new_vars,
              !.constraints = m.constraints \cup new_constraints]

\* Whether constraint c can still hold once the variables without a value in
\* `partial` get one: the least and greatest values its left side can take.
\* With every variable assigned this is Holds(c, partial).
Feasible(c, partial) ==
    LET known == [v \in DOMAIN c.coef \cap DOMAIN partial |-> c.coef[v] * partial[v]]
        free == DOMAIN c.coef \ DOMAIN partial
        lo == SumFn(known) + SumFn([v \in {x \in free : c.coef[x] < 0} |-> c.coef[v]])
        hi == SumFn(known) + SumFn([v \in {x \in free : c.coef[x] > 0} |-> c.coef[v]])
    IN  CASE c.rel = "<=" -> lo <= c.rhs
          [] c.rel = "==" -> lo <= c.rhs /\ c.rhs <= hi
          [] c.rel = ">=" -> hi >= c.rhs

\* The assignments of the booleans in `rest` that extend `partial` and satisfy
\* the constraints `cs`: a branch ends as soon as a constraint of the
\* variable just set can no longer hold.
RECURSIVE Search(_, _, _)
Search(partial, rest, cs) ==
    IF rest = {} THEN {partial}
    ELSE LET v == CHOOSE x \in rest : TRUE
         IN  UNION {LET ext == partial @@ (v :> b)
                    IN  IF \A c \in {x \in cs : v \in DOMAIN x.coef} : Feasible(c, ext)
                        THEN Search(ext, rest \ {v}, cs)
                        ELSE {} : b \in {0, 1}}

\* the domain <<lo, hi>> of every variable of a model
Domains(m) == [v \in m.bool_vars |-> <<0, 1>>] @@ m.int_vars

Least(x, y) == IF x <= y THEN x ELSE y

Greatest(x, y) == IF x >= y THEN x ELSE y

\* Feasible for variables with the domains dom
FeasibleIn(c, partial, dom) ==
    LET known == [v \in DOMAIN c.coef \cap DOMAIN partial |-> c.coef[v] * partial[v]]
        free == DOMAIN c.coef \ DOMAIN partial
        lo == SumFn(known)
              + SumFn([v \in free |-> Least(c.coef[v] * dom[v][1], c.coef[v] * dom[v][2])])
        hi == SumFn(known)
              + SumFn([v \in free |-> Greatest(c.coef[v] * dom[v][1], c.coef[v] * dom[v][2])])
    IN  CASE c.rel = "<=" -> lo <= c.rhs
          [] c.rel = "==" -> lo <= c.rhs /\ c.rhs <= hi
          [] c.rel = ">=" -> hi >= c.rhs

\* Search for variables with the domains dom, the booleans first
RECURSIVE SearchIn(_, _, _, _)
SearchIn(partial, rest, cs, dom) ==
    IF rest = {} THEN {partial}
    ELSE LET v == IF \E x \in rest : dom[x] = <<0, 1>>
                  THEN CHOOSE x \in rest : dom[x] = <<0, 1>>
                  ELSE CHOOSE x \in rest : TRUE
         IN  UNION {LET ext == partial @@ (v :> b)
                    IN  IF \A c \in {x \in cs : v \in DOMAIN x.coef} : FeasibleIn(c, ext, dom)
                        THEN SearchIn(ext, rest \ {v}, cs, dom)
                        ELSE {} : b \in dom[v][1]..dom[v][2]}

\* the assignments of the variables, each within its domain, that satisfy
\* every constraint: empty at once when a constraint cannot hold whatever the
\* values
Solutions(m) ==
    IF m.int_vars = <<>>
    THEN IF \E c \in m.constraints : ~Feasible(c, <<>>) THEN {}
         ELSE Search(<<>>, m.bool_vars, m.constraints)
    ELSE IF \E c \in m.constraints : ~FeasibleIn(c, <<>>, Domains(m)) THEN {}
         ELSE SearchIn(<<>>, DOMAIN Domains(m), m.constraints, Domains(m))

OPTIMAL == "OPTIMAL"
FEASIBLE == "FEASIBLE"
INFEASIBLE == "INFEASIBLE"
MODEL_INVALID == "MODEL_INVALID"
UNKNOWN == "UNKNOWN"

\* model.Minimize(expression) for a linear expression given by its coefficients
MinimizeLinear(m, coef) == [m EXCEPT !.objective = [linear |-> coef]]

\* the value of the objective under assignment a: sum(vs), or the linear
\* expression
Objective(m, a) ==
    IF "linear" \in DOMAIN m.objective
    THEN SumFn([v \in DOMAIN m.objective.linear |-> m.objective.linear[v] * a[v]])
    ELSE Cardinality({v \in m.objective.minimize : a[v] = 1})

\* CpSolver.Solve: INFEASIBLE when no assignment satisfies the model, UNKNOWN
\* when the time limit ends the search before a solution is found, otherwise
\* a solution: OPTIMAL with any solution when there is no objective, OPTIMAL
\* with a solution of least objective or FEASIBLE with any solution (the time
\* limit ended the search) when there is one.
CpSolver_Solve(m) ==
    LET sols == Solutions(m)
        best == IF m.objective = NoObjective THEN sols
                ELSE {a \in sols : \A b \in sols : Objective(m, a) <= Objective(m, b)}
    IN  {[status |-> OPTIMAL, values |-> a] : a \in best}
        \cup (IF m.objective = NoObjective THEN {}
              ELSE {[status |-> FEASIBLE, values |-> a] : a \in sols})
        \cup (IF sols = {} THEN {[status |-> INFEASIBLE, values |-> <<>>]} ELSE {})
        \cup {[status |-> UNKNOWN, values |-> <<>>]}

HasSolution == solver # NoSolver /\ solver.status \in {OPTIMAL, FEASIBLE}

\* solver.Value(variables[key])
Value(key) == solver.values[key]

----------------------------------------------------------------------------
(* SchedulingInput                                                         *)

PhysicianNames == <<<<"Dr. A">>, <<"Dr. B">>, <<"Dr", "C">>, <<"Dr. D">>>>

\* Physician(...) with every day budget (hundredths of a day) given
Physician(name, fte, budgets, unavailable) ==
    [name |-> name,
     fte_percentage |-> fte,
     total_number_of_days_per_year |-> budgets.total,
     total_number_of_pathology_days_per_year |-> budgets.pathology,
     total_number_of_clinical_days_per_year |-> budgets.clinical,
     total_number_of_osd_days_per_year |-> budgets.osd,
     total_number_of_nvc_days_per_year |-> budgets.nvc,
     total_number_of_admin_days_per_year |-> budgets.admin,
     total_number_of_sdo_days_per_year |-> budgets.sdo,
     total_number_of_vacation_days_per_year |-> budgets.vacation,
     unavailable_dates |-> unavailable]

ZeroBudgets ==
    [total |-> 0, pathology |-> 0, clinical |-> 0, osd |-> 0, nvc |-> 0,
     admin |-> 0, sdo |-> 0, vacation |-> 0]

\* SchedulingInput(physicians, calendar_days, roles, ...)
SchedulingInput(physicians, calendar_days, roles) ==
    [physicians |-> physicians, calendar_days |-> calendar_days, roles |-> roles]

\* n consecutive calendar days from a start date
Calendar(start, n) == [i \in 1..n |-> start + i - 1]

\* the number of (physician, day, role) combinations
NumKeys(inp) == Len(inp.physicians) * Len(inp.calendar_days) * Cardinality(inp.roles)

Slots(inp) ==
    {<<p, d, per>> : p \in Range(inp.physicians), d \in Range(inp.calendar_days),
                     per \in HalfDayPeriod}

----------------------------------------------------------------------------
(* ConstraintBuilder.add_one_role_per_day_constraints                      *)

non_dp_vars(inp, vs, p, d, per) ==
    {var_name(p, d, per, r) : r \in {x \in inp.roles : ~startswith_dp(x)}} \cap vs

category_role_vars(vs, p, d, per, c) ==
    {var_name(p, d, per, r) : r \in get_roles_by_category(c)} \cap vs

\* the categories for which a "<category>_active" boolean is created in a slot
slot_categories(vs, p, d, per) ==
    {c \in RoleCategory : category_role_vars(vs, p, d, per, c) # {}}

category_vars(vs, p, d, per) ==
    {category_var_name(p, d, per, c) : c \in slot_categories(vs, p, d, per)}

\* model.Add(sum(non_dp_vars) <= 1)
non_dp_constraints(inp, vs) ==
    {Linear(Ones(non_dp_vars(inp, vs, s[1], s[2], s[3])), "<=", 1) :
        s \in {t \in Slots(inp) : non_dp_vars(inp, vs, t[1], t[2], t[3]) # {}}}

\* the category stage without the link between a category indicator and the
\* role variables of its category
category_link_constraints_unlinked(inp, vs) ==
    {}

\* model.Add(sum(category_role_vars) <= len(category_role_vars) * active)
\* model.Add(sum(category_role_vars) >= active)
category_link_constraints(inp, vs) ==
    UNION {UNION {
        LET crv == category_role_vars(vs, s[1], s[2], s[3], c)
            act == category_var_name(s[1], s[2], s[3], c)
        IN  {Linear(Ones(crv) @@ (act :> -Cardinality(crv)), "<=", 0),
             Linear(Ones(crv) @@ (act :> -1), ">=", 0)}
        : c \in slot_categories(vs, s[1], s[2], s[3])} : s \in Slots(inp)}

\* the bound of the link constraint, len(...), reused for the category sum
one_category_constraints_len(inp, vs) ==
    {Linear(Ones(category_vars(vs, s[1], s[2], s[3])), "<=",
            Cardinality(category_vars(vs, s[1], s[2], s[3]))) :
        s \in {t \in Slots(inp) : category_vars(vs, t[1], t[2], t[3]) # {}}}

\* model.Add(sum(category_vars.values()) <= 1)
one_category_constraints(inp, vs) ==
    {Linear(Ones(category_vars(vs, s[1], s[2], s[3])), "<=", 1) :
        s \in {t \in Slots(inp) : category_vars(vs, t[1], t[2], t[3]) # {}}}

add_one_role_per_day_constraints ==
    /\ model # NoModel
    /\ "one_role" \notin applied
    /\ model' = Extend(model,
                       UNION {category_vars(variables, s[1], s[2], s[3]) : s \in Slots(input_data)},
                       non_dp_constraints(input_data, variables)
                           \cup category_link_constraints(input_data, variables)
                           \cup one_category_constraints(input_data, variables))
    /\ applied' = applied \cup {"one_role"}
    /\ UNCHANGED <<input_data, variables, solver, call, terms>>

----------------------------------------------------------------------------
(* ConstraintBuilder.add_unavailability_constraints                        *)

\* the keys looked up for a physician's unavailable dates in the calendar
unavailable_keys(inp, p) ==
    {var_name(p, d, per, r) :
        d \in (p.unavailable_dates \cap Range(inp.calendar_days)),
        r \in inp.roles, per \in HalfDayPeriod}

\* model.Add(self.variables[var_name] == False)
unavailability_constraints(inp, vs) ==
    {Linear(v :> 1, "==", 0) :
        v \in (UNION {unavailable_keys(inp, p) : p \in Range(inp.physicians)}) \cap vs}

add_unavailability_constraints ==
    /\ model # NoModel
    /\ "unavailability" \notin applied
    /\ model' = Extend(model, {}, unavailability_constraints(input_data, variables))
    /\ applied' = applied \cup {"unavailability"}
    /\ UNCHANGED <<input_data, variables, solver, call, terms>>

----------------------------------------------------------------------------
(* Day budgets in half-day units                                           *)

\* Python int(): truncation toward zero of num / den, den > 0
IntTrunc(num, den) == IF num >= 0 THEN num \div den ELSE -((-num) \div den)

\* int(days * 2) for a budget stored in hundredths of a day
half_days(budget) == IntTrunc(2 * budget, 100)

\* the variables of one role of one physician over the whole calendar
role_vars(inp, vs, p, r) ==
    {var_name(p, d, per, r) : d \in Range(inp.calendar_days), per \in HalfDayPeriod} \cap vs

----------------------------------------------------------------------------
(* Physician: derived day budgets                                          *)

\* Python round() of the exact quotient num / den (den > 0): the
\* nearest integer, a tie going to the even one.  The float product the code
\* rounds is not the exact quotient; the FTE values drawn below are those for
\* which it is not within rounding error of a tie.
Round(num, den) ==
    LET q == num \div den
        r == num % den
    IN  IF 2 * r < den THEN q
        ELSE IF 2 * r > den THEN q + 1
        ELSE IF q % 2 = 0 THEN q ELSE q + 1

\* Physician.calculated_sdo_days, in hundredths of a day
calculated_sdo_days(fte) ==
    IF fte >= 1000 THEN 0 ELSE 50 * Round((1000 - fte) * 255 * 2, 1000)

----------------------------------------------------------------------------
(* Physician.create_with_effective_fte_calculation                         *)
(* FTE arguments in thousandths, results in hundredths of a day.           *)

\* Physician.calculate_effective_clinical_fte
calculate_effective_clinical_fte(total_fte, admin_fte, research_fte) ==
    total_fte - admin_fte - research_fte

\* round(category * 2 * effective_clinical_fte) / 2
calculated_vacation_days(vacation_category, effective_clinical_fte) ==
    50 * Round(vacation_category * 2 * effective_clinical_fte, 1000)

\* round(255 * 2 * fte - category * 2 * effective_clinical_fte - 18 * 2) / 2
calculated_workdays_after_vacation_trip(fte, vacation_category, effective_clinical_fte) ==
    50 * Round(255 * 2 * fte - vacation_category * 2 * effective_clinical_fte - 18 * 2 * 1000,
               1000)

\* round(workdays * 2 * 0.10) / 2
calculated_osd_days(workdays) == 50 * Round(2 * workdays * 10, 100 * 100)

\* round(workdays * 2 * 0.90) / 2
calculated_pathology_days(workdays) == 50 * Round(2 * workdays * 90, 100 * 100)

\* round(osd_days * 2 * 0.10) / 2
calculated_nvc_days(osd_days) == 50 * Round(2 * osd_days * 10, 100 * 100)

\* round((osd_days - nvc_days) * 2) / 2
calculated_clinic_days(osd_days, nvc_days) == 50 * Round(2 * (osd_days - nvc_days), 100)

\* 255 * 2 * admin_fte_percentage, not rounded: 0.51 of a day per thousandth
calculated_admin_days(admin_fte) == (255 * 2 * admin_fte * 100) \div 1000

\* 255 * 2 * research_fte_percentage, not rounded
calculated_research_days(research_fte) == (255 * 2 * research_fte * 100) \div 1000

\* Physician.workdays_per_year: round(255 * 2 * fte) / 2
workdays_per_year(fte) == 50 * Round(255 * 2 * fte, 1000)

create_with_effective_fte_calculation(name, fte, admin_fte, research_fte, vacation_category) ==
    LET eff == calculate_effective_clinical_fte(fte, admin_fte, research_fte)
        workdays == calculated_workdays_after_vacation_trip(fte, vacation_category, eff)
        osd == calculated_osd_days(workdays)
        nvc == calculated_nvc_days(osd)
    IN  Physician(name, fte,
                  [total |-> workdays,
                   pathology |-> calculated_pathology_days(workdays),
                   clinical |-> calculated_clinic_days(osd, nvc),
                   osd |-> osd,
                   nvc |-> nvc,
                   admin |-> calculated_admin_days(admin_fte),
                   sdo |-> calculated_sdo_days(fte),
                   vacation |-> calculated_vacation_days(vacation_category, eff)],
                  {})

----------------------------------------------------------------------------
(* ConstraintBuilder.add_sdo_constraints                                   *)

\* the SDO sum with "at most" in place of "exactly"
sdo_target_constraints_atmost(inp, vs) ==
    {Linear(Ones(role_vars(inp, vs, p, "SDO")), "<=",
            IF p.fte_percentage >= 1000 THEN 0
            ELSE half_days(p.total_number_of_sdo_days_per_year)) :
        p \in {q \in Range(inp.physicians) : role_vars(inp, vs, q, "SDO") # {}}}

\* model.Add(sum(sdo_vars) == 0) for FTE >= 1.0,
\* model.Add(sum(sdo_vars) == required_sdo_half_days) otherwise
sdo_target_constraints(inp, vs) ==
    {Linear(Ones(role_vars(inp, vs, p, "SDO")), "==",
            IF p.fte_percentage >= 1000 THEN 0
            ELSE half_days(p.total_number_of_sdo_days_per_year)) :
        p \in {q \in Range(inp.physicians) : role_vars(inp, vs, q, "SDO") # {}}}

\* the exclusion emitted for the SDO variable against itself only
sdo_exclusion_constraints_none(inp, vs) == {}

\* model.Add(other_role_var <= 1 - sdo_var), part-time physicians only
sdo_exclusion_constraints(inp, vs) ==
    UNION {
        LET sdo == var_name(s[1], s[2], s[3], "SDO")
        IN  IF sdo \in vs
            THEN {Linear(v :> 1 @@ sdo :> 1, "<=", 1) :
                    v \in {var_name(s[1], s[2], s[3], r) : r \in inp.roles \ {"SDO"}} \cap vs}
            ELSE {}
        : s \in {t \in Slots(inp) : t[1].fte_percentage < 1000}}

add_sdo_constraints ==
    /\ model # NoModel
    /\ "sdo" \notin applied
    /\ model' = Extend(model, {},
                       sdo_target_constraints(input_data, variables)
                           \cup sdo_exclusion_constraints(input_data, variables))
    /\ applied' = applied \cup {"sdo"}
    /\ UNCHANGED <<input_data, variables, solver, call, terms>>

----------------------------------------------------------------------------
(* The solver run on the builder's model, as the stage tests set it up     *)

Solve ==
    /\ model # NoModel
    /\ applied # {}
    /\ solver = NoSolver
    /\ solver' \in CpSolver_Solve(model)
    /\ UNCHANGED <<input_data, variables, model, applied, call, terms>>

\* ConstraintBuilder(model, variables, input_data) on a fresh model
InitBuilder(inp, vs) ==
    /\ input_data = inp
    /\ variables = vs
    /\ model = NewModel(vs)
    /\ solver = NoSolver
    /\ applied = {}
    /\ call = NoCall
    /\ terms = NoTerms

\* the two variable dicts: the scheduler's keys, or one key per half-day
VariableSpaces(inp) == {scheduler_variables(inp), period_variables(inp)}

PeriodIndexed == variables = period_variables(input_data)

----------------------------------------------------------------------------
(* Category exclusivity                                                    *)

\* the size limits of the inputs drawn
Bounded(inp) ==
    /\ Len(inp.physicians) <= MaxPhysicians
    /\ Len(inp.calendar_days) <= MaxDays
    /\ Cardinality(inp.roles) <= MaxRoles
    /\ NumKeys(inp) <= MaxKeys

CategoryRoles == {"DP", "DPD", "DPWG", "DPED", "IMF", "OSD", "NVC", "SDO"}

\* a full-time and a part-time physician
CategoryFtes == {1000, 800}

CategoryInputs ==
    {inp \in {SchedulingInput(<<Physician(PhysicianNames[1], fte, ZeroBudgets, {})>>,
                              Calendar(1, n), roles) :
                n \in 1..MaxDays, roles \in (SUBSET CategoryRoles) \ {{}},
                fte \in CategoryFtes} :
        Bounded(inp)}

InitCategory ==
    \E inp \in CategoryInputs : \E vs \in VariableSpaces(inp) : InitBuilder(inp, vs)

NextCategory == add_one_role_per_day_constraints \/ Solve

SpecCategory == InitCategory /\ [][NextCategory]_vars

CategoryStageSolved == "one_role" \in applied /\ PeriodIndexed /\ HasSolution

dp_roles_in_scope == {r \in input_data.roles : startswith_dp(r)}

\* the assignment with exactly the combinable roles of slot s set (and the
\* pathology indicator of that slot with them)
StackedAssignment(s) ==
    [v \in model.bool_vars |->
        IF v \in {var_name(s[1], s[2], s[3], r) : r \in dp_roles_in_scope}
                  \cup {category_var_name(s[1], s[2], s[3], PATHOLOGY)}
        THEN 1 ELSE 0]

\* C1: after the category-exclusivity stage on a (physician, day, period,
\* role) variable space, no satisfying assignment gives a physician two roles
\* of different categories in one half-day slot, and the assignment that sets
\* all the combinable roles (DP, DPD, DPWG, DPED) of a slot is satisfying.
C1_CategoryExclusive ==
    /\ CategoryStageSolved =>
          \A s \in Slots(input_data) : \A r1, r2 \in input_data.roles :
              category(r1) # category(r2) =>
                  ~(Value(var_name(s[1], s[2], s[3], r1)) = 1
                    /\ Value(var_name(s[1], s[2], s[3], r2)) = 1)
    /\ ("one_role" \in applied /\ PeriodIndexed /\ dp_roles_in_scope # {}) =>
          \A s \in Slots(input_data) : Satisfies(StackedAssignment(s), model)

\* C1 witness: a solution in which DP, DPD, DPWG and DPED are all assigned
\* to one physician in one slot
C1_Witness ==
    /\ CategoryStageSolved
    /\ input_data.roles = {"DP", "DPD", "DPWG", "DPED"}
    /\ \E s \in Slots(input_data) : \A r \in input_data.roles :
           Value(var_name(s[1], s[2], s[3], r)) = 1

\* C2: after the category-exclusivity stage, a physician who is assigned a
\* role outside the combinable set in a slot has every other role variable
\* of that slot at 0, combinable or not.
C2_NonCombinableAlone ==
    CategoryStageSolved =>
        \A s \in Slots(input_data) : \A r1, r2 \in input_data.roles :
            (~startswith_dp(r1) /\ r2 # r1
             /\ Value(var_name(s[1], s[2], s[3], r1)) = 1)
                => Value(var_name(s[1], s[2], s[3], r2)) = 0

----------------------------------------------------------------------------
(* Unavailability                                                          *)

\* a date that is in no calendar drawn
OutsideDate == Len(DayStrings)

UnavailableChoices == {{}, {1}, {2, OutsideDate}}

UnavailabilityRoles == {"DP", "OSD"}

UnavailabilityInputs ==
    {inp \in {SchedulingInput(physicians, Calendar(1, n), roles) :
                physicians \in
                    {<<Physician(PhysicianNames[1], 1000, ZeroBudgets, u)>> :
                        u \in UnavailableChoices}
                    \cup {<<Physician(PhysicianNames[1], 800, ZeroBudgets, u1),
                             Physician(PhysicianNames[2], 1000, ZeroBudgets, u2)>> :
                        u1 \in UnavailableChoices, u2 \in UnavailableChoices},
                n \in 1..MaxDays,
                roles \in (SUBSET UnavailabilityRoles) \ {{}}} :
        Bounded(inp)}

InitUnavailability ==
    \E inp \in UnavailabilityInputs : \E vs \in VariableSpaces(inp) : InitBuilder(inp, vs)

NextUnavailability == add_unavailability_constraints \/ Solve

SpecUnavailability == InitUnavailability /\ [][NextUnavailability]_vars

\* the physician's unavailable dates that lie in the calendar
unavailable_in_calendar(p) ==
    p.unavailable_dates \cap Range(input_data.calendar_days)

\* C3: with the decision variables that create_model (and the tests, 'same
\* as in scheduler') create, after the unavailability stage every satisfying
\* assignment has every role variable of a physician at 0 on each of the
\* physician's unavailable dates that lies in the calendar.
C3_UnavailableZero ==
    ("unavailability" \in applied /\ variables = scheduler_variables(input_data)
     /\ HasSolution) =>
        \A p \in Range(input_data.physicians) : \A d \in unavailable_in_calendar(p) :
            \A r \in input_data.roles : Value(scheduler_var_name(p, d, r)) = 0

\* The stage on a variable dict that has the keys it looks up: every
\* variable of an unavailable date in the calendar is 0, in both periods.
UnavailableZeroPeriodIndexed ==
    ("unavailability" \in applied /\ PeriodIndexed /\ HasSolution) =>
        \A p \in Range(input_data.physicians) : \A d \in unavailable_in_calendar(p) :
            \A r \in input_data.roles : \A per \in HalfDayPeriod :
                Value(var_name(p, d, per, r)) = 0

----------------------------------------------------------------------------
(* Scheduled days off                                                      *)

\* FTE values (thousandths) whose SDO budget fits the calendars drawn
SdoFtes == {1000, 998, 996, 994}

\* Physician.create_with_effective_fte_calculation as far as the SDO stage
\* reads its result, and a full-time Physician(...) built with a budget
SdoPhysicians(name) ==
    {Physician(name, f, [ZeroBudgets EXCEPT !.sdo = calculated_sdo_days(f)], {}) :
        f \in SdoFtes}
    \cup {Physician(name, 1000, [ZeroBudgets EXCEPT !.sdo = 50], {})}

SdoRoles == {"SDO", "DP", "OSD"}

SdoInputs ==
    {inp \in {SchedulingInput(physicians, Calendar(1, n), roles) :
                physicians \in
                    {<<p>> : p \in SdoPhysicians(PhysicianNames[1])}
                    \cup {<<p, q>> : p \in SdoPhysicians(PhysicianNames[1]),
                                     q \in SdoPhysicians(PhysicianNames[2])},
                n \in 1..MaxDays,
                roles \in (SUBSET SdoRoles) \ {{}}} :
        Bounded(inp)}

\* the example's scenario: Dr. FullTime (FTE 1.0) and Dr. PartTime80 (FTE
\* 0.8) from the factory, the week from 2024-01-01, five roles
SdoScenario ==
    SchedulingInput(<<create_with_effective_fte_calculation(<<"Dr. FullTime">>,
                                                            1000, 150, 50, 30),
                      create_with_effective_fte_calculation(<<"Dr. PartTime80">>,
                                                            800, 100, 50, 25)>>,
                    Calendar(1, 7),
                    {"DP", "OSD", "ADMIN", "SDO", "VACATION"})

InitSdo ==
    \/ \E inp \in SdoInputs : \E vs \in VariableSpaces(inp) : InitBuilder(inp, vs)
    \/ InitBuilder(SdoScenario, period_variables(SdoScenario))

NextSdo == add_sdo_constraints \/ Solve

SpecSdo == InitSdo /\ [][NextSdo]_vars

SdoStageSolved ==
    "sdo" \in applied /\ PeriodIndexed /\ "SDO" \in input_data.roles /\ HasSolution

\* the number of variables of role r of physician p with value 1
Count(p, r) ==
    Cardinality({v \in role_vars(input_data, variables, p, r) : Value(v) = 1})

C16_ScenarioSolved ==
    /\ input_data = SdoScenario
    /\ "sdo" \in applied
    /\ solver # NoSolver
    /\ solver.status # UNKNOWN
    => /\ HasSolution
       /\ Count(input_data.physicians[1], "SDO") = 0
       /\ Count(input_data.physicians[2], "SDO")
             = half_days(calculated_sdo_days(800))

\* C5: after the SDO stage, for a part-time physician and every half-day
\* slot, the SDO variable and another role variable are never both 1.
C5_SdoExclusive ==
    SdoStageSolved =>
        \A s \in Slots(input_data) : \A r \in input_data.roles \ {"SDO"} :
            s[1].fte_percentage < 1000 =>
                ~(Value(var_name(s[1], s[2], s[3], "SDO")) = 1
                  /\ Value(var_name(s[1], s[2], s[3], r)) = 1)

\* C5 witness: a part-time physician on SDO in the morning, with the other
\* role off, and on the other role in the afternoon, with SDO off
C5_Witness ==
    /\ SdoStageSolved
    /\ input_data.roles = {"SDO", "DP"}
    /\ \E p \in Range(input_data.physicians) : \E d \in Range(input_data.calendar_days) :
          /\ p.fte_percentage < 1000
          /\ Value(var_name(p, d, MORNING, "SDO")) = 1
          /\ Value(var_name(p, d, MORNING, "DP")) = 0
          /\ Value(var_name(p, d, AFTERNOON, "SDO")) = 0
          /\ Value(var_name(p, d, AFTERNOON, "DP")) = 1

----------------------------------------------------------------------------
(* ConstraintBuilder.add_coverage_constraints                              *)

\* the variables of role r on day d, over all physicians and the periods given
day_role_vars(inp, vs, d, periods, r) ==
    {var_name(p, d, per, r) : p \in Range(inp.physicians), per \in periods} \cap vs

\* sum(xs) rel rhs, added only when the list xs is not empty
sum_constraint(xs, rel, rhs) ==
    IF xs # {} THEN {Linear(Ones(xs), rel, rhs)} ELSE {}

\* the daily sums with each role's required minimum of physicians, where the
\* input states one, in place of the fixed numbers
coverage_sum_constraints_required(inp, vs, d) ==
    LET required(r, fixed) ==
            IF "coverage_requirements" \in DOMAIN inp
            THEN IF r \in DOMAIN inp.coverage_requirements
                 THEN inp.coverage_requirements[r].min_physicians ELSE fixed
            ELSE fixed
    IN  sum_constraint(day_role_vars(inp, vs, d, HalfDayPeriod, "IMF"), ">=", required("IMF", 1))
        \cup sum_constraint(day_role_vars(inp, vs, d, HalfDayPeriod, "DP"), ">=", required("DP", 5))
        \cup sum_constraint(day_role_vars(inp, vs, d, {MORNING}, "DPD"), "==", 1)
        \cup sum_constraint(day_role_vars(inp, vs, d, {AFTERNOON}, "DPD"), "==", 1)

\* the daily sums with four DP half-days required instead of five
coverage_sum_constraints_dp4(inp, vs, d) ==
    sum_constraint(day_role_vars(inp, vs, d, HalfDayPeriod, "IMF"), ">=", 1)
    \cup sum_constraint(day_role_vars(inp, vs, d, HalfDayPeriod, "DP"), ">=", 4)
    \cup sum_constraint(day_role_vars(inp, vs, d, {MORNING}, "DPD"), "==", 1)
    \cup sum_constraint(day_role_vars(inp, vs, d, {AFTERNOON}, "DPD"), "==", 1)

\* IMF >= 1, DP >= 5, morning DPD == 1, afternoon DPD == 1
coverage_sum_constraints(inp, vs, d) ==
    sum_constraint(day_role_vars(inp, vs, d, HalfDayPeriod, "IMF"), ">=", 1)
    \cup sum_constraint(day_role_vars(inp, vs, d, HalfDayPeriod, "DP"), ">=", 5)
    \cup sum_constraint(day_role_vars(inp, vs, d, {MORNING}, "DPD"), "==", 1)
    \cup sum_constraint(day_role_vars(inp, vs, d, {AFTERNOON}, "DPD"), "==", 1)

\* x == y
Equal(x, y) == Linear((x :> 1) @@ (y :> -1), "==", 0)

\* the afternoon bundling without the DPWG link
bundling_constraints_pair(inp, vs, d) ==
    IF weekday(d) \in {0, 1, 2, 3, 4}
    THEN {Equal(var_name(p, d, AFTERNOON, "DPD"), var_name(p, d, AFTERNOON, "DPED")) :
            p \in {q \in Range(inp.physicians) :
                      /\ var_name(q, d, AFTERNOON, "DPD") \in vs
                      /\ var_name(q, d, AFTERNOON, "DPED") \in vs}}
    ELSE {}

\* Monday to Friday: afternoon DPD == DPED per physician when both keys
\* exist, and then on Tuesday and Thursday DPD == DPWG when its key exists
bundling_constraints(inp, vs, d) ==
    IF weekday(d) \in {0, 1, 2, 3, 4}
    THEN UNION {LET dpd == var_name(p, d, AFTERNOON, "DPD")
                    dped == var_name(p, d, AFTERNOON, "DPED")
                    dpwg == var_name(p, d, AFTERNOON, "DPWG")
                IN  IF dpd \in vs /\ dped \in vs
                    THEN {Equal(dpd, dped)}
                         \cup (IF weekday(d) \in {1, 3} /\ dpwg \in vs
                               THEN {Equal(dpd, dpwg)} ELSE {})
                    ELSE {} : p \in Range(inp.physicians)}
    ELSE {}

coverage_constraints(inp, vs) ==
    UNION {coverage_sum_constraints(inp, vs, d) \cup bundling_constraints(inp, vs, d) :
            d \in Range(inp.calendar_days)}

add_coverage_constraints ==
    /\ model # NoModel
    /\ "coverage" \notin applied
    /\ model' = Extend(model, {}, coverage_constraints(input_data, variables))
    /\ applied' = applied \cup {"coverage"}
    /\ UNCHANGED <<input_data, variables, solver, call, terms>>

----------------------------------------------------------------------------
(* Coverage                                                                *)

MaxCoverageKeys == 9

CoverageScopes ==
    {{"DP"}, {"DP", "IMF", "DPD"}, {"IMF", "DPD"}, {"DPD", "DPED"},
     {"DPD", "DPWG"}, {"DPD", "DPED", "DPWG"}}

\* calendars starting on a Monday, a Tuesday and a Friday (a second day is
\* then a Saturday)
CoverageStarts == {1, 2, 5}

CoverageInputs ==
    {inp \in {SchedulingInput([i \in 1..k |-> Physician(PhysicianNames[i], 1000, ZeroBudgets, {})],
                              Calendar(start, n), roles) :
                k \in {j \in 1..MaxPhysicians : j <= Len(PhysicianNames)},
                start \in CoverageStarts,
                n \in {j \in 1..MaxDays : j + 4 <= Len(DayStrings)},
                roles \in CoverageScopes} :
        NumKeys(inp) <= MaxCoverageKeys}

InitCoverage == \E inp \in CoverageInputs : \E vs \in VariableSpaces(inp) : InitBuilder(inp, vs)

NextCoverage == add_coverage_constraints \/ Solve

SpecCoverage == InitCoverage /\ [][NextCoverage]_vars

CoverageStageSolved == "coverage" \in applied /\ HasSolution

\* the keys of role r on day d, in the periods given, that are in the dict
InScope(d, periods, r) ==
    {k \in {var_name(p, d, per, r) : p \in Range(input_data.physicians), per \in periods} :
        k \in variables}

\* how many of them the solution sets to 1
OnCount(d, periods, r) == Cardinality({k \in InScope(d, periods, r) : Value(k) = 1})

\* C6: after the coverage stage, on every calendar day whose variables are in
\* scope, a satisfying assignment has at least 1 IMF half-day and at least 5
\* DP half-days over all physicians and both periods, and exactly one
\* physician on DPD in the morning and exactly one in the afternoon.
C6_Coverage ==
    CoverageStageSolved =>
        \A d \in Range(input_data.calendar_days) :
            /\ InScope(d, HalfDayPeriod, "IMF") # {} => OnCount(d, HalfDayPeriod, "IMF") >= 1
            /\ InScope(d, HalfDayPeriod, "DP") # {} => OnCount(d, HalfDayPeriod, "DP") >= 5
            /\ InScope(d, {MORNING}, "DPD") # {} => OnCount(d, {MORNING}, "DPD") = 1
            /\ InScope(d, {AFTERNOON}, "DPD") # {} => OnCount(d, {AFTERNOON}, "DPD") = 1

\* C6 witness: three physicians, one day: five DP half-days, one IMF half-day
\* and DPD held by different physicians in the morning and the afternoon
C6_Witness ==
    /\ CoverageStageSolved
    /\ PeriodIndexed
    /\ input_data.roles = {"DP", "IMF", "DPD"}
    /\ \E d \in Range(input_data.calendar_days) :
          /\ OnCount(d, HalfDayPeriod, "DP") = 5
          /\ OnCount(d, HalfDayPeriod, "IMF") = 1
          /\ \E p, q \in Range(input_data.physicians) :
                /\ p # q
                /\ Value(var_name(p, d, MORNING, "DPD")) = 1
                /\ Value(var_name(q, d, AFTERNOON, "DPD")) = 1

\* C7: after the coverage stage, on every Monday-to-Friday calendar day and
\* for every physician, afternoon DPD equals afternoon DPED; on Tuesdays and
\* Thursdays afternoon DPWG equals both, so the three indicators are all 0 or
\* all 1.
C7_Bundling ==
    CoverageStageSolved =>
        \A p \in Range(input_data.physicians) : \A d \in Range(input_data.calendar_days) :
            LET dpd == var_name(p, d, AFTERNOON, "DPD")
                dped == var_name(p, d, AFTERNOON, "DPED")
                dpwg == var_name(p, d, AFTERNOON, "DPWG")
            IN  /\ (weekday(d) \in 0..4 /\ {dpd, dped} \subseteq variables)
                      => Value(dpd) = Value(dped)
                /\ (weekday(d) \in {1, 3} /\ {dpd, dped, dpwg} \subseteq variables)
                      => /\ Value(dpwg) = Value(dpd)
                         /\ Value(dpwg) = Value(dped)
                         /\ {Value(dpd), Value(dped), Value(dpwg)} \in {{0}, {1}}

\* C7 witness: a Tuesday on which one physician holds the whole afternoon
\* triplet and another holds none of it
C7_Witness ==
    /\ CoverageStageSolved
    /\ PeriodIndexed
    /\ input_data.roles = {"DPD", "DPED", "DPWG"}
    /\ \E d \in Range(input_data.calendar_days) : \E p, q \in Range(input_data.physicians) :
          /\ weekday(d) = 1
          /\ \A r \in input_data.roles : Value(var_name(p, d, AFTERNOON, r)) = 1
          /\ \A r \in input_data.roles : Value(var_name(q, d, AFTERNOON, r)) = 0

----------------------------------------------------------------------------
(* ConstraintBuilder.add_annual_target_constraints                         *)

\* int(18 * 2)
max_trip_days == 36

\* the variables of a set of roles of one physician over the whole calendar
roles_vars(inp, vs, p, rs) == UNION {role_vars(inp, vs, p, r) : r \in rs}

\* work_roles
work_roles(inp) == inp.roles \ {"VACATION", "TRIP", "SDO"}

\* the targets without the one of the clinical category
annual_targets_no_clinical(inp, vs, p) ==
    {<<roles_vars(inp, vs, p, work_roles(inp)), p.total_number_of_days_per_year>>,
     <<roles_vars(inp, vs, p, get_roles_by_category(PATHOLOGY)),
       p.total_number_of_pathology_days_per_year>>,
     <<role_vars(inp, vs, p, "OSD"), p.total_number_of_osd_days_per_year>>,
     <<role_vars(inp, vs, p, "NVC"), p.total_number_of_nvc_days_per_year>>,
     <<role_vars(inp, vs, p, "ADMIN"), p.total_number_of_admin_days_per_year>>,
     <<role_vars(inp, vs, p, "SDO"), p.total_number_of_sdo_days_per_year>>}

\* the seven targets of a physician: the variables summed and the budget read
annual_targets(inp, vs, p) ==
    {<<roles_vars(inp, vs, p, work_roles(inp)), p.total_number_of_days_per_year>>,
     <<roles_vars(inp, vs, p, get_roles_by_category(PATHOLOGY)),
       p.total_number_of_pathology_days_per_year>>,
     <<roles_vars(inp, vs, p, get_roles_by_category(CLINICAL)),
       p.total_number_of_clinical_days_per_year>>,
     <<role_vars(inp, vs, p, "OSD"), p.total_number_of_osd_days_per_year>>,
     <<role_vars(inp, vs, p, "NVC"), p.total_number_of_nvc_days_per_year>>,
     <<role_vars(inp, vs, p, "ADMIN"), p.total_number_of_admin_days_per_year>>,
     <<role_vars(inp, vs, p, "SDO"), p.total_number_of_sdo_days_per_year>>}

\* model.Add(sum(xs) == int(budget * 2)) for each target with variables
annual_equality_constraints(inp, vs) ==
    UNION {UNION {sum_constraint(t[1], "==", half_days(t[2])) : t \in annual_targets(inp, vs, p)} :
            p \in Range(inp.physicians)}

\* trip and vacation required in full instead of bounded
annual_upper_constraints_exact(inp, vs) ==
    UNION {sum_constraint(role_vars(inp, vs, p, "TRIP"), "==", max_trip_days)
           \cup sum_constraint(role_vars(inp, vs, p, "VACATION"), "==",
                               half_days(p.total_number_of_vacation_days_per_year)) :
            p \in Range(inp.physicians)}

\* model.Add(sum(trip_vars) <= 36), model.Add(sum(vacation_vars) <= int(days * 2))
annual_upper_constraints(inp, vs) ==
    UNION {sum_constraint(role_vars(inp, vs, p, "TRIP"), "<=", max_trip_days)
           \cup sum_constraint(role_vars(inp, vs, p, "VACATION"), "<=",
                               half_days(p.total_number_of_vacation_days_per_year)) :
            p \in Range(inp.physicians)}

add_annual_target_constraints ==
    /\ model # NoModel
    /\ "annual" \notin applied
    /\ model' = Extend(model, {}, annual_equality_constraints(input_data, variables)
                                  \cup annual_upper_constraints(input_data, variables))
    /\ applied' = applied \cup {"annual"}
    /\ UNCHANGED <<input_data, variables, solver, call, terms>>

----------------------------------------------------------------------------
(* Annual targets                                                          *)

MaxBudgetHalfDays == 2

\* day budgets that are whole numbers of half-days
BudgetValues == {50 * h : h \in 0..MaxBudgetHalfDays}

AnnualScopes ==
    {{"ADMIN"}, {"DP", "IMF"}, {"DP", "OSD"}, {"OSD", "NVC"}, {"ADMIN", "SDO"},
     {"TRIP", "VACATION"}, {"DP", "VACATION"}, {"RESEARCH", "TRIP"}}

\* the budgets the stage reads when the roles given are in scope
BudgetFields(roles) ==
    (IF roles \ {"VACATION", "TRIP", "SDO"} # {} THEN {"total"} ELSE {})
    \cup (IF roles \cap get_roles_by_category(PATHOLOGY) # {} THEN {"pathology"} ELSE {})
    \cup (IF roles \cap get_roles_by_category(CLINICAL) # {} THEN {"clinical"} ELSE {})
    \cup (IF "OSD" \in roles THEN {"osd"} ELSE {})
    \cup (IF "NVC" \in roles THEN {"nvc"} ELSE {})
    \cup (IF "ADMIN" \in roles THEN {"admin"} ELSE {})
    \cup (IF "SDO" \in roles THEN {"sdo"} ELSE {})
    \cup (IF "VACATION" \in roles THEN {"vacation"} ELSE {})

\* Physician(...) with the budgets read for the scope drawn, the others 0
DirectPhysicians(name, roles) ==
    {Physician(name, 1000, b, {}) :
        b \in {x \in [DOMAIN ZeroBudgets -> BudgetValues] :
                 \A f \in DOMAIN ZeroBudgets \ BudgetFields(roles) : x[f] = 0}}

\* physicians of FTE 0.08 and 0.082, vacation category 22, with admin and
\* research FTE of 0 or 0.001: total budgets of one and two half-days
FactoryPhysicians(name) ==
    {create_with_effective_fte_calculation(name, 80, 0, 0, 22),
     create_with_effective_fte_calculation(name, 80, 1, 0, 22),
     create_with_effective_fte_calculation(name, 82, 1, 1, 22)}

AnnualInputs ==
    {inp \in UNION {{SchedulingInput(<<p>>, Calendar(1, n), roles) :
                        p \in DirectPhysicians(PhysicianNames[1], roles)
                              \cup FactoryPhysicians(PhysicianNames[1]),
                        n \in 1..MaxDays} : roles \in AnnualScopes} :
        Bounded(inp)}

InitAnnual == \E inp \in AnnualInputs : \E vs \in VariableSpaces(inp) : InitBuilder(inp, vs)

NextAnnual == add_annual_target_constraints \/ Solve

SpecAnnual == InitAnnual /\ [][NextAnnual]_vars

AnnualStageSolved == "annual" \in applied /\ PeriodIndexed /\ HasSolution

\* the variables of the roles rs of physician p, and how many are 1
ScopeVars(p, rs) ==
    {k \in UNION {{var_name(p, d, per, r) : d \in Range(input_data.calendar_days),
                                            per \in HalfDayPeriod} : r \in rs} :
        k \in variables}

CountRoles(p, rs) == Cardinality({k \in ScopeVars(p, rs) : Value(k) = 1})

\* twice the budget (hundredths of a day) is the count of half-days, for the
\* roles rs when they have variables
ExactTarget(p, rs, budget) ==
    ScopeVars(p, rs) # {} => 100 * CountRoles(p, rs) = 2 * budget

SevenTargets(p) ==
    /\ ExactTarget(p, input_data.roles \ {"VACATION", "TRIP", "SDO"},
                   p.total_number_of_days_per_year)
    /\ ExactTarget(p, {"IMF", "DP", "DPD", "DPWG", "DPED", "EDUCATION"},
                   p.total_number_of_pathology_days_per_year)
    /\ ExactTarget(p, {"OSD", "NVC"}, p.total_number_of_clinical_days_per_year)
    /\ ExactTarget(p, {"OSD"}, p.total_number_of_osd_days_per_year)
    /\ ExactTarget(p, {"NVC"}, p.total_number_of_nvc_days_per_year)
    /\ ExactTarget(p, {"ADMIN"}, p.total_number_of_admin_days_per_year)
    /\ ExactTarget(p, {"SDO"}, p.total_number_of_sdo_days_per_year)

\* C8: after the annual-target stage, in every satisfying assignment and for
\* every physician, the number of role variables at 1 over the calendar is
\* exactly twice the stored day budget for total work, pathology, clinical,
\* OSD, NVC, ADMIN and SDO.
C8_AnnualExact ==
    AnnualStageSolved => \A p \in Range(input_data.physicians) : SevenTargets(p)

\* The same for physicians whose stored budgets are whole half-days
AnnualExactHalfDayBudgets ==
    AnnualStageSolved =>
        \A p \in Range(input_data.physicians) :
            (\A f \in {p.total_number_of_days_per_year,
                       p.total_number_of_pathology_days_per_year,
                       p.total_number_of_clinical_days_per_year,
                       p.total_number_of_osd_days_per_year,
                       p.total_number_of_nvc_days_per_year,
                       p.total_number_of_admin_days_per_year,
                       p.total_number_of_sdo_days_per_year} : f % 50 = 0)
            => SevenTargets(p)

\* the constraints of the model over trip or vacation variables of p
TimeOffConstraints(p) ==
    {c \in model.constraints : DOMAIN c.coef \cap ScopeVars(p, {"TRIP", "VACATION"}) # {}}

\* the solution with the variable k set to 0
Lowered(k) == [solver.values EXCEPT ![k] = 0]

\* C9: the annual-target stage bounds trip and vacation from above only: a
\* satisfying assignment has at most 36 trip half-days and at most twice the
\* vacation allotment in vacation half-days, and giving up any trip or
\* vacation half-day of a satisfying assignment leaves a satisfying one.
C9_UpperBoundsOnly ==
    AnnualStageSolved =>
        \A p \in Range(input_data.physicians) :
            /\ CountRoles(p, {"TRIP"}) <= 36
            /\ 100 * CountRoles(p, {"VACATION"}) <= 2 * p.total_number_of_vacation_days_per_year
            /\ \A c \in TimeOffConstraints(p) :
                  /\ c.rel = "<="
                  /\ \A k \in DOMAIN c.coef : c.coef[k] > 0
                  /\ DOMAIN c.coef \cap ScopeVars(p, {"TRIP"}) # {} => c.rhs = 36
            /\ \A k \in ScopeVars(p, {"TRIP", "VACATION"}) : Satisfies(Lowered(k), model)

\* C9 witness: a physician with an allotment of two vacation half-days who
\* takes one of them and no trip half-day, both roles being in scope
C9_Witness ==
    /\ AnnualStageSolved
    /\ input_data.roles = {"TRIP", "VACATION"}
    /\ \E p \in Range(input_data.physicians) :
          /\ p.total_number_of_vacation_days_per_year = 100
          /\ CountRoles(p, {"VACATION"}) = 1
          /\ CountRoles(p, {"TRIP"}) = 0

----------------------------------------------------------------------------
(* ConstraintBuilder.add_all_constraints                                   *)

\* the stages add_all_constraints runs (the SDO stage is commented out)
AllStages == {"one_role", "unavailability", "coverage", "annual"}

add_all_constraints(m, inp, vs) ==
    Extend(m,
           UNION {category_vars(vs, s[1], s[2], s[3]) : s \in Slots(inp)},
           non_dp_constraints(inp, vs)
               \cup category_link_constraints(inp, vs)
               \cup one_category_constraints(inp, vs)
               \cup unavailability_constraints(inp, vs)
               \cup coverage_constraints(inp, vs)
               \cup annual_equality_constraints(inp, vs)
               \cup annual_upper_constraints(inp, vs))

----------------------------------------------------------------------------
(* PhysicianScheduler                                                      *)

\* how a call ended: the exception it raised ("none" when it returned), the
\* value it returned, the last operation that ran to completion, and the
\* exception the call caught and reported on the console ("none" without one)
Returned(op, value, completed) ==
    [op |-> op, raised |-> "none", returned |-> value, completed |-> completed,
     caught |-> "none"]

Raised(op, exception) ==
    [op |-> op, raised |-> exception, returned |-> "none",
     completed |-> call.completed, caught |-> "none"]

\* run_scheduler's except clause: the exception is printed and None returned
Caught(op, exception, completed) ==
    [op |-> op, raised |-> "none", returned |-> "None", completed |-> completed,
     caught |-> exception]

\* PhysicianScheduler(input_data), the input having passed validation
InitScheduler(inp) ==
    /\ input_data = inp
    /\ model = NoModel
    /\ variables = {}
    /\ solver = NoSolver
    /\ applied = {}
    /\ call = Returned("__init__", "None", "__init__")
    /\ terms = NoTerms

create_model ==
    /\ variables' = scheduler_variables(input_data)
    /\ model' = NewModel(scheduler_variables(input_data))
    /\ applied' = {}
    /\ call' = Returned("create_model", "None", "create_model")
    /\ UNCHANGED <<input_data, solver, terms>>

add_constraints ==
    IF model = NoModel
    THEN /\ call' = Raised("add_constraints", "RuntimeError")
         /\ UNCHANGED <<input_data, variables, model, solver, applied, terms>>
    ELSE /\ model' = add_all_constraints(model, input_data, variables)
         /\ applied' = applied \cup AllStages
         /\ call' = Returned("add_constraints", "None", "add_constraints")
         /\ UNCHANGED <<input_data, variables, solver, terms>>

\* model.Minimize(sum(self.variables.values())) when there are variables
objective_defined(m, vs) == IF vs # {} THEN Minimize(m, vs) ELSE m

define_objective_function ==
    IF model = NoModel
    THEN /\ call' = Raised("define_objective_function", "RuntimeError")
         /\ UNCHANGED <<input_data, variables, model, solver, applied, terms>>
    ELSE /\ model' = objective_defined(model, variables)
         /\ call' = Returned("define_objective_function", "None", "define_objective_function")
         /\ UNCHANGED <<input_data, variables, solver, applied, terms>>

\* the value solve returns for a solver status
solve_result(status) == IF status \in {OPTIMAL, FEASIBLE} THEN "True" ELSE "False"

solve ==
    IF model = NoModel
    THEN /\ call' = Raised("solve", "RuntimeError")
         /\ UNCHANGED <<input_data, variables, model, solver, applied, terms>>
    ELSE /\ solver' \in CpSolver_Solve(model)
         /\ call' = Returned("solve", solve_result(solver'.status), "solve")
         /\ UNCHANGED <<input_data, variables, model, applied, terms>>

\* var_name.split('_') finds a physician and a role: the last part is the
\* value of a role in scope and the parts before the last two are a name
parses(inp, key) ==
    /\ Len(key) >= 3
    /\ \E q \in Range(inp.physicians) : q.name = SubSeq(key, 1, Len(key) - 2)
    /\ \E r \in inp.roles : RoleValue(r) = <<key[Len(key)]>>

\* scheduler.py with "from datetime import date" among its imports
date_defined_imported == TRUE

\* scheduler.py imports List, Dict, Optional, cp_model and the data models;
\* the name date that extract_solution uses is not among them
date_defined == FALSE

\* the keys for which a ScheduleAssignment is appended to assignments
extracted_assignments(inp, vs, sv) ==
    {k \in vs : sv.values[k] = 1 /\ parses(inp, k) /\ date_defined}

\* The ways extract_solution ends.  Without a solution solver.Value either
\* raises or reads 0.  With one, the first variable at 1 whose key parses
\* reaches date.fromisoformat, and scheduler.py does not import date: a
\* NameError; no assignment is ever appended, so the result is None.
extract_outcomes(inp, vs, sv) ==
    IF sv = NoSolver \/ vs = {}
    THEN {[raised |-> "RuntimeError", returned |-> "none"]}
    ELSE IF sv.status \notin {OPTIMAL, FEASIBLE}
    THEN {[raised |-> "Exception", returned |-> "none"],
          [raised |-> "none", returned |-> "None"]}
    ELSE IF \E k \in vs : sv.values[k] = 1 /\ parses(inp, k) /\ ~date_defined
    THEN {[raised |-> "NameError", returned |-> "none"]}
    ELSE IF extracted_assignments(inp, vs, sv) # {}
    THEN {[raised |-> "none", returned |-> "Schedule"]}
    ELSE {[raised |-> "none", returned |-> "None"]}

extract_solution ==
    /\ \E o \in extract_outcomes(input_data, variables, solver) :
          call' = IF o.raised # "none"
                  THEN Raised("extract_solution", o.raised)
                  ELSE Returned("extract_solution", o.returned, "extract_solution")
    /\ UNCHANGED <<input_data, variables, model, solver, applied, terms>>

\* create_model, add_constraints, define_objective_function, solve and
\* extract_solution in one call; an exception of any step is caught and None
\* returned
run_outcomes(inp) ==
    LET vs == scheduler_variables(inp)
        m == objective_defined(add_all_constraints(NewModel(vs), inp, vs), vs)
    IN  UNION {IF solve_result(sv.status) = "False"
               THEN {[solver |-> sv, call |-> Returned("run_scheduler", "None", "solve")]}
               ELSE {[solver |-> sv,
                      call |-> IF o.raised # "none"
                               THEN Caught("run_scheduler", o.raised, "solve")
                               ELSE Returned("run_scheduler", o.returned,
                                             "extract_solution")] :
                         o \in extract_outcomes(inp, vs, sv)} :
               sv \in CpSolver_Solve(m)}

run_scheduler ==
    LET vs == scheduler_variables(input_data)
        m == objective_defined(add_all_constraints(NewModel(vs), input_data, vs), vs)
    IN  /\ variables' = vs
        /\ model' = m
        /\ applied' = AllStages
        /\ \E o \in run_outcomes(input_data) :
              /\ solver' = o.solver
              /\ call' = o.call
        /\ UNCHANGED <<input_data, terms>>

----------------------------------------------------------------------------
(* The orchestrator under any sequence of calls                            *)

\* factory-built physicians: validate_scheduling_input accepts them
SchedulerPhysicians(name) ==
    {create_with_effective_fte_calculation(name, 1000, 0, 0, 22),
     create_with_effective_fte_calculation(name, 80, 1, 0, 22)}

SchedulerScopes == {{"ADMIN"}, {"DP"}, {"ADMIN", "DP"}, {"OSD", "VACATION"}}

SchedulerInputs ==
    {inp \in {SchedulingInput(physicians, Calendar(1, n), roles) :
                physicians \in
                    {<<p>> : p \in SchedulerPhysicians(PhysicianNames[1])}
                    \cup {<<p, q>> : p \in SchedulerPhysicians(PhysicianNames[1]),
                                     q \in SchedulerPhysicians(PhysicianNames[3])},
                n \in 1..MaxDays,
                roles \in SchedulerScopes} :
        Bounded(inp)}

InitOrchestrator == \E inp \in SchedulerInputs : InitScheduler(inp)

NextOrchestrator ==
    \/ create_model
    \/ add_constraints
    \/ define_objective_function
    \/ solve
    \/ extract_solution
    \/ run_scheduler

SpecOrchestrator == InitOrchestrator /\ [][NextOrchestrator]_vars

\* Uninitialized, VariablesCreated, ConstraintsApplied, ObjectiveSet, Solved,
\* Extracted: the position in that order of the phase an operation leads to
PhaseRank(op) ==
    CASE op = "__init__"                  -> 0
      [] op = "create_model"              -> 1
      [] op = "add_constraints"           -> 2
      [] op = "define_objective_function" -> 3
      [] op = "solve"                     -> 4
      [] op = "extract_solution"          -> 5

\* C10: under any sequence of calls to create_model, add_constraints,
\* define_objective_function, solve, extract_solution and run_scheduler the
\* phase only moves forward: no call returns to an earlier phase or replaces
\* the model or the variables once a later phase has been reached.
C10_PhaseForward ==
    [][/\ PhaseRank(call'.completed) >= PhaseRank(call.completed)
       /\ PhaseRank(call.completed) >= 2 =>
             /\ variables' = variables
             /\ model' # NoModel
             /\ model.constraints \subseteq model'.constraints
             /\ model.objective # NoObjective => model'.objective = model.objective]_vars

\* C11: a run of run_scheduler returns a Schedule exactly when the solver
\* status is optimal or feasible, no Schedule when it is infeasible, invalid
\* or unknown, and solve answers True for exactly the first two statuses.
C11_RunReturnsSchedule ==
    /\ call.op = "run_scheduler" =>
          (call.returned = "Schedule" <=> solver.status \in {OPTIMAL, FEASIBLE})
    /\ call.op = "solve" /\ call.raised = "none" =>
          (call.returned = "True" <=> solver.status \in {OPTIMAL, FEASIBLE})

\* how a run ended: an exception was raised inside it ("crash"), the solver
\* proved the model infeasible, the solver gave no usable status ("failure"),
\* or a solution was found
RunEnd(sv, c) ==
    IF c.caught # "none" THEN "crash"
    ELSE IF sv.status = INFEASIBLE THEN "infeasible"
    ELSE IF sv.status \in {UNKNOWN, MODEL_INVALID} THEN "failure"
    ELSE "solved"

\* what the caller of run_scheduler gets
CallerSees(c) == <<c.raised, c.returned>>

\* C12: the outcome run_scheduler gives its caller tells an infeasible model,
\* a crash and an unknown or invalid solver status apart: two runs that end
\* in different ones of these three never give the caller the same outcome.
C12_OutcomesDistinct ==
    call.op = "run_scheduler" =>
        \A o \in run_outcomes(input_data) :
            /\ RunEnd(solver, call) \in {"crash", "infeasible", "failure"}
            /\ RunEnd(o.solver, o.call) \in {"crash", "infeasible", "failure"}
            /\ RunEnd(o.solver, o.call) # RunEnd(solver, call)
            => CallerSees(o.call) # CallerSees(call)

\* C13: after create_model the variable space holds one variable for every
\* physician, calendar day, half-day period and role in scope, two per
\* physician, day and role, under the keys the constraint stages look up.
C13_VariableSpace ==
    model # NoModel =>
        /\ variables = period_variables(input_data)
        /\ Cardinality(variables) = 2 * NumKeys(input_data)

\* the variables the solver set to 1
ones(vs, sv) == {k \in vs : sv.values[k] = 1}

\* C14: extract_solution yields one Assignment for every variable whose
\* solved value is 1, so with some variable at 1 it returns a Schedule holding
\* as many assignments as there are such variables, whatever the physician
\* names and role values, those containing the separator '_' included.
C14_OneAssignmentPerOne ==
    /\ call.op = "extract_solution"
    /\ solver # NoSolver
    /\ solver.status \in {OPTIMAL, FEASIBLE}
    /\ ones(variables, solver) # {}
    => /\ call.raised = "none"
       /\ call.returned = "Schedule"
       /\ Cardinality(extracted_assignments(input_data, variables, solver))
             = Cardinality(ones(variables, solver))

----------------------------------------------------------------------------
(* Construction: Physician.__post_init__, SchedulingInput.__post_init__,   *)
(* validate_scheduling_input and PhysicianScheduler.__init__.  Here a name *)
(* is the sequence of its characters.                                      *)

Whitespace == {" ", "\t", "\n"}

RECURSIVE lstrip(_)
lstrip(s) == IF s # <<>> /\ Head(s) \in Whitespace THEN lstrip(Tail(s)) ELSE s

RECURSIVE rstrip(_)
rstrip(s) ==
    IF s # <<>> /\ s[Len(s)] \in Whitespace THEN rstrip(SubSeq(s, 1, Len(s) - 1)) ELSE s

\* str.strip()
strip(s) == rstrip(lstrip(s))

\* the arguments of Physician(...): every field of the dataclass that the
\* validation reads (FTEs in thousandths, day counts in hundredths of a day)
PhysicianArgs(name, fte, admin_fte, research_fte, vacation_category, effective, trip, budgets) ==
    [name |-> name,
     fte_percentage |-> fte,
     admin_fte_percentage |-> admin_fte,
     research_fte_percentage |-> research_fte,
     vacation_category |-> vacation_category,
     effective_clinical_fte_percentage |-> effective,
     total_number_of_trip_days_per_year |-> trip,
     total_number_of_days_per_year |-> budgets.total,
     total_number_of_pathology_days_per_year |-> budgets.pathology,
     total_number_of_clinical_days_per_year |-> budgets.clinical,
     total_number_of_osd_days_per_year |-> budgets.osd,
     total_number_of_nvc_days_per_year |-> budgets.nvc,
     total_number_of_admin_days_per_year |-> budgets.admin,
     total_number_of_research_days_per_year |-> budgets.research,
     total_number_of_sdo_days_per_year |-> budgets.sdo,
     total_number_of_vacation_days_per_year |-> budgets.vacation]

\* not 0.0 <= x <= 1.0
out_of_range(x) == ~(0 <= x /\ x <= 1000)

\* the checks of __post_init__ with any number of trip days accepted
post_init_outcomes_any_trip(a) ==
    LET total == a.fte_percentage
        admin == a.admin_fte_percentage
        research == a.research_fte_percentage
        eff == a.effective_clinical_fte_percentage
        diff == eff - calculate_effective_clinical_fte(total, admin, research)
        absdiff == IF diff < 0 THEN 0 - diff ELSE diff
        trip == {"none"}
        mismatch == IF absdiff > 1 THEN {"effective_mismatch"}
                    ELSE IF absdiff = 1 THEN {"effective_mismatch"} \cup trip
                    ELSE trip
    IN  IF out_of_range(total) THEN {"fte_range"}
        ELSE IF out_of_range(admin) THEN {"admin_fte_range"}
        ELSE IF out_of_range(research) THEN {"research_fte_range"}
        ELSE IF out_of_range(eff) THEN {"effective_fte_range"}
        ELSE IF strip(a.name) = <<>> THEN {"empty_name"}
        ELSE IF admin + research > total THEN {"admin_research_exceeds_total"}
        ELSE IF admin + research = total /\ admin # 0 /\ research # 0
        THEN {"admin_research_exceeds_total"} \cup mismatch
        ELSE mismatch

\* The errors Physician.__post_init__ can raise for the arguments a, "none"
\* for a Physician constructed: the checks run in order and the first that
\* fails raises.  The FTEs are floats: a sum admin + research that equals
\* the total exactly can compare greater after rounding, and a difference of
\* exactly 0.001 can compare greater than 0.001.
post_init_outcomes(a) ==
    LET total == a.fte_percentage
        admin == a.admin_fte_percentage
        research == a.research_fte_percentage
        eff == a.effective_clinical_fte_percentage
        diff == eff - calculate_effective_clinical_fte(total, admin, research)
        absdiff == IF diff < 0 THEN 0 - diff ELSE diff
        trip == IF a.total_number_of_trip_days_per_year # 1800 THEN {"trip"} ELSE {"none"}
        mismatch == IF absdiff > 1 THEN {"effective_mismatch"}
                    ELSE IF absdiff = 1 THEN {"effective_mismatch"} \cup trip
                    ELSE trip
    IN  IF out_of_range(total) THEN {"fte_range"}
        ELSE IF out_of_range(admin) THEN {"admin_fte_range"}
        ELSE IF out_of_range(research) THEN {"research_fte_range"}
        ELSE IF out_of_range(eff) THEN {"effective_fte_range"}
        ELSE IF strip(a.name) = <<>> THEN {"empty_name"}
        ELSE IF admin + research > total THEN {"admin_research_exceeds_total"}
        ELSE IF admin + research = total /\ admin # 0 /\ research # 0
        THEN {"admin_research_exceeds_total"} \cup mismatch
        ELSE mismatch

\* abs(provided - calculated) > tolerance, the tolerance half a day
mismatch(provided, calculated) ==
    (IF provided < calculated THEN calculated - provided ELSE provided - calculated) > 50

\* errors.append(e) under a condition
append_if(cond, e) == IF cond THEN {e} ELSE {}

\* Physician.validate_derived_values: the list of mismatches, as a set
validate_derived_values(p) ==
    LET eff == p.effective_clinical_fte_percentage
        workdays == calculated_workdays_after_vacation_trip(p.fte_percentage,
                                                            p.vacation_category, eff)
        osd == calculated_osd_days(workdays)
    IN  append_if(mismatch(p.total_number_of_vacation_days_per_year,
                           calculated_vacation_days(p.vacation_category, eff)),
                  "vacation_mismatch")
        \cup append_if(mismatch(p.total_number_of_osd_days_per_year, osd), "osd_mismatch")
        \cup append_if(mismatch(p.total_number_of_pathology_days_per_year,
                                calculated_pathology_days(workdays)),
                       "pathology_mismatch")
        \cup append_if(mismatch(p.total_number_of_nvc_days_per_year,
                                calculated_nvc_days(osd)), "nvc_mismatch")
        \cup append_if(mismatch(p.total_number_of_sdo_days_per_year,
                                calculated_sdo_days(p.fte_percentage)), "sdo_mismatch")
        \cup append_if(mismatch(p.total_number_of_clinical_days_per_year,
                                p.total_number_of_osd_days_per_year
                                    - p.total_number_of_nvc_days_per_year),
                       "clinical_mismatch")

\* CoverageRequirement(role, min_physicians, max_physicians): max_physicians
\* is <<>> for None and <<n>> for the number n
CoverageRequirement(min_physicians, max_physicians) ==
    [min_physicians |-> min_physicians, max_physicians |-> max_physicians]

\* SchedulingInput.__post_init__: the first check that fails raises
scheduling_input_error(physicians, calendar_days, roles, coverage_requirements) ==
    IF physicians = <<>> THEN "no_physicians"
    ELSE IF calendar_days = <<>> THEN "no_calendar_days"
    ELSE IF roles = {} THEN "no_roles"
    ELSE IF \E r \in roles : r \notin DOMAIN coverage_requirements
    THEN "missing_coverage_requirement"
    ELSE "none"

\* validate_scheduling_input: every error found, as a set
validate_scheduling_input(physicians, calendar_days, coverage_requirements) ==
    UNION {append_if(physicians[i].fte_percentage <= 0, "invalid_fte")
           \cup append_if(Cardinality({j \in DOMAIN physicians :
                                         physicians[j].name = physicians[i].name}) > 1,
                          "duplicate_physician_name")
           \cup validate_derived_values(physicians[i]) : i \in DOMAIN physicians}
    \cup append_if(Len(calendar_days) # Cardinality(Range(calendar_days)),
                   "duplicate_calendar_days")
    \cup UNION {append_if(coverage_requirements[r].min_physicians < 0, "invalid_minimum")
                \cup append_if(/\ coverage_requirements[r].max_physicians # <<>>
                               /\ coverage_requirements[r].max_physicians[1]
                                     < coverage_requirements[r].min_physicians,
                               "maximum_less_than_minimum") :
                r \in DOMAIN coverage_requirements}

\* what the caller gets from building the physicians, the SchedulingInput and
\* the PhysicianScheduler: the ValueError raised and the errors its message
\* holds, or the scheduler
Rejected(op, errors) ==
    [op |-> op, raised |-> "ValueError", returned |-> "none", completed |-> "none",
     caught |-> "none", errors |-> errors]

Constructed(op, value) ==
    [op |-> op, raised |-> "none", returned |-> value, completed |-> "__init__",
     caught |-> "none", errors |-> {}]

\* the physicians are constructed in order; the error of the first
\* construction that raises, "none" when every Physician is constructed
RECURSIVE physicians_outcomes(_)
physicians_outcomes(args) ==
    IF args = <<>> THEN {"none"}
    ELSE (post_init_outcomes(Head(args)) \ {"none"})
         \cup (IF "none" \in post_init_outcomes(Head(args))
               THEN physicians_outcomes(Tail(args)) ELSE {})

\* the error sets a request can end with, {} for a scheduler constructed
construction_outcomes(req) ==
    {IF e # "none" THEN {e}
     ELSE IF scheduling_input_error(req.physicians, req.calendar_days, req.roles,
                                    req.coverage_requirements) # "none"
     THEN {scheduling_input_error(req.physicians, req.calendar_days, req.roles,
                                  req.coverage_requirements)}
     ELSE validate_scheduling_input(req.physicians, req.calendar_days,
                                    req.coverage_requirements) :
     e \in physicians_outcomes(req.physicians)}

\* [Physician(...), ...], SchedulingInput(...), PhysicianScheduler(input_data)
construct_scheduler ==
    /\ call = NoCall
    /\ \E errors \in construction_outcomes(input_data) :
          call' = IF errors # {} THEN Rejected("PhysicianScheduler", errors)
                  ELSE Constructed("PhysicianScheduler", "PhysicianScheduler")
    /\ UNCHANGED <<input_data, variables, model, solver, applied, terms>>

----------------------------------------------------------------------------
(* Requests with violations                                                *)

\* the budgets the calculation gives, and budgets left at 0
CalculatedBudgets(fte, admin_fte, research_fte, vacation_category, eff) ==
    LET workdays == calculated_workdays_after_vacation_trip(fte, vacation_category, eff)
        osd == calculated_osd_days(workdays)
        nvc == calculated_nvc_days(osd)
    IN  [total |-> workdays,
         pathology |-> calculated_pathology_days(workdays),
         clinical |-> calculated_clinic_days(osd, nvc),
         osd |-> osd,
         nvc |-> nvc,
         admin |-> calculated_admin_days(admin_fte),
         research |-> calculated_research_days(research_fte),
         sdo |-> calculated_sdo_days(fte),
         vacation |-> calculated_vacation_days(vacation_category, eff)]

RequestNames == {<<"A">>, <<"B">>, <<" ">>}

\* total, admin, research and effective clinical FTE
RequestFtes == {<<1000, 0, 0, 1000>>, <<1500, 0, 0, 1000>>, <<100, 100, 100, 0>>}

RequestPhysicians ==
    {PhysicianArgs(name, f[1], f[2], f[3], 22, f[4], trip,
                   CalculatedBudgets(f[1], f[2], f[3], 22, f[4])) :
        name \in RequestNames, f \in RequestFtes, trip \in {1800, 1700}}

RequestCoverage ==
    {CoverageRequirement(0, <<>>), CoverageRequirement(0, <<1>>),
     CoverageRequirement(2, <<1>>)}

Requests ==
    {[physicians |-> ps, calendar_days |-> <<1>>, roles |-> rs,
      coverage_requirements |-> cov] :
        ps \in {<<p>> : p \in RequestPhysicians}
                \cup {<<p, q>> : p \in RequestPhysicians, q \in RequestPhysicians},
        rs \in {{"ADMIN"}},
        cov \in UNION {[covered -> RequestCoverage] : covered \in SUBSET {"ADMIN"}}}

InitConstruction ==
    /\ input_data \in Requests
    /\ model = NoModel
    /\ variables = {}
    /\ solver = NoSolver
    /\ applied = {}
    /\ call = NoCall
    /\ terms = NoTerms

NextConstruction == construct_scheduler

SpecConstruction == InitConstruction /\ [][NextConstruction]_vars

\* the violations a request holds
Violations(req) ==
    LET ps == req.physicians
    IN  append_if(\E i \in DOMAIN ps :
                      \/ out_of_range(ps[i].fte_percentage)
                      \/ out_of_range(ps[i].admin_fte_percentage)
                      \/ out_of_range(ps[i].research_fte_percentage), "fte_range")
        \cup append_if(\E i \in DOMAIN ps :
                           ps[i].admin_fte_percentage + ps[i].research_fte_percentage
                               > ps[i].fte_percentage, "admin_research_exceeds_total")
        \cup append_if(\E i \in DOMAIN ps :
                           ps[i].total_number_of_trip_days_per_year # 1800, "trip")
        \cup append_if(\E i \in DOMAIN ps : strip(ps[i].name) = <<>>, "empty_name")
        \cup append_if(\E i, j \in DOMAIN ps : i # j /\ ps[i].name = ps[j].name,
                       "duplicate_physician_name")
        \cup append_if(\E r \in req.roles : r \notin DOMAIN req.coverage_requirements,
                       "missing_coverage_requirement")
        \cup append_if(\E r \in DOMAIN req.coverage_requirements :
                           /\ req.coverage_requirements[r].max_physicians # <<>>
                           /\ req.coverage_requirements[r].min_physicians
                                 > req.coverage_requirements[r].max_physicians[1],
                       "maximum_less_than_minimum")

\* C15: for a request holding any set of violations (FTE out of range, admin
\* + research above the total, trip days not 18, empty or duplicate physician
\* name, missing coverage requirement, minimum above maximum) the caller gets,
\* before any model or variable exists, one error that lists every violation
\* present.
C15_EveryViolationListed ==
    call # NoCall /\ Violations(input_data) # {} =>
        /\ call.raised = "ValueError"
        /\ model = NoModel /\ variables = {}
        /\ Violations(input_data) \subseteq call.errors

----------------------------------------------------------------------------
(* Physician(...) and Physician.create_with_effective_fte_calculation(...) *)
(* on arguments of any kind                                                *)

\* the errors calculate_effective_clinical_fte can raise, "none" for a value
\* returned; a float sum admin + research equal to the total can compare
\* greater
calculate_effective_clinical_fte_outcomes(total_fte, admin_fte, research_fte) ==
    IF out_of_range(total_fte) THEN {"fte_range"}
    ELSE IF out_of_range(admin_fte) THEN {"admin_fte_range"}
    ELSE IF out_of_range(research_fte) THEN {"research_fte_range"}
    ELSE IF admin_fte + research_fte > total_fte THEN {"admin_research_exceeds_total"}
    ELSE IF admin_fte + research_fte = total_fte /\ admin_fte # 0 /\ research_fte # 0
    THEN {"admin_research_exceeds_total", "none"}
    ELSE {"none"}

\* the budgets of the temporary instance
TemporaryBudgets ==
    [total |-> 0, pathology |-> 0, clinical |-> 0, osd |-> 0, nvc |-> 0, admin |-> 0,
     research |-> 0, sdo |-> 0, vacation |-> 0]

\* the Physician the factory builds from name, FTEs and vacation category
factory_physician(a, budgets) ==
    PhysicianArgs(a.name, a.fte_percentage, a.admin_fte_percentage,
                  a.research_fte_percentage, a.vacation_category,
                  calculate_effective_clinical_fte(a.fte_percentage,
                                                   a.admin_fte_percentage,
                                                   a.research_fte_percentage),
                  1800, budgets)

\* create_with_effective_fte_calculation: the effective clinical FTE, the
\* temporary instance, the calculated values, the final instance
factory_outcomes(a) ==
    LET final == factory_physician(a,
                     CalculatedBudgets(a.fte_percentage, a.admin_fte_percentage,
                                       a.research_fte_percentage, a.vacation_category,
                                       calculate_effective_clinical_fte(
                                           a.fte_percentage, a.admin_fte_percentage,
                                           a.research_fte_percentage)))
    IN  UNION {IF e # "none" THEN {Rejected("create_with_effective_fte_calculation", {e})}
               ELSE {IF t # "none"
                     THEN Rejected("create_with_effective_fte_calculation", {t})
                     ELSE Constructed("create_with_effective_fte_calculation", final) :
                        t \in post_init_outcomes(factory_physician(a, TemporaryBudgets))} :
               e \in calculate_effective_clinical_fte_outcomes(
                         a.fte_percentage, a.admin_fte_percentage,
                         a.research_fte_percentage)}

\* Physician(**a)
construct_physician ==
    /\ call = NoCall
    /\ \E e \in post_init_outcomes(input_data) :
          call' = IF e # "none" THEN Rejected("Physician", {e})
                  ELSE Constructed("Physician", input_data)
    /\ UNCHANGED <<input_data, variables, model, solver, applied, terms>>

\* Physician.create_with_effective_fte_calculation(a.name, a.fte_percentage,
\* a.admin_fte_percentage, a.research_fte_percentage, a.vacation_category)
create_physician ==
    /\ call = NoCall
    /\ call' \in factory_outcomes(input_data)
    /\ UNCHANGED <<input_data, variables, model, solver, applied, terms>>

\* VacationCategory
VacationCategories == {22, 25, 30, 35}

PhysicianFtes == {0 - 1, 0, 80, 750, 800, 1000, 1001}

PhysicianAdminFtes == {0 - 1, 0, 10, 50, 100}

PhysicianResearchFtes == {0, 1, 50, 1001}

\* how far the effective clinical FTE given is from total - admin - research
EffectiveOffsets == {0, 1, 2}

PhysicianInputs ==
    {PhysicianArgs(name, fte, admin_fte, research_fte, vacation_category,
                   fte - admin_fte - research_fte + off, trip, TemporaryBudgets) :
        name \in {<<"D", "r">>, <<" ", "\t">>},
        fte \in PhysicianFtes, admin_fte \in PhysicianAdminFtes,
        research_fte \in PhysicianResearchFtes,
        vacation_category \in VacationCategories,
        off \in EffectiveOffsets, trip \in {1800, 1700}}

InitPhysician ==
    /\ input_data \in PhysicianInputs
    /\ model = NoModel
    /\ variables = {}
    /\ solver = NoSolver
    /\ applied = {}
    /\ call = NoCall
    /\ terms = NoTerms

NextPhysician == construct_physician \/ create_physician

SpecPhysician == InitPhysician /\ [][NextPhysician]_vars

\* the factory returned a Physician
FactoryBuilt == call # NoCall /\ call.op = "create_with_effective_fte_calculation"
                /\ call.raised = "none"

\* the day budgets of a Physician, workdays_per_year among them
DayBudgets(p) ==
    {workdays_per_year(p.fte_percentage),
     p.total_number_of_days_per_year,
     p.total_number_of_pathology_days_per_year,
     p.total_number_of_clinical_days_per_year,
     p.total_number_of_osd_days_per_year,
     p.total_number_of_nvc_days_per_year,
     p.total_number_of_admin_days_per_year,
     p.total_number_of_research_days_per_year,
     p.total_number_of_sdo_days_per_year,
     p.total_number_of_vacation_days_per_year}

\* C17: for every total FTE in [0, 1], admin and research FTE with admin +
\* research <= total and every vacation category, each day budget the factory
\* computes and stores (workdays, vacation, workdays after vacation and trip,
\* OSD, pathology, NVC, clinic, admin, research, SDO) is a multiple of half a
\* day.
C17_HalfDayBudgets ==
    FactoryBuilt => \A b \in DayBudgets(call.returned) : b % 50 = 0

\* C18: for every FTE, admin and research split and vacation category the
\* workdays-after-vacation-and-trip budget equals workdays - vacation - 18,
\* workdays being round(255 * 2 * FTE) / 2 and vacation being
\* round(category * 2 * effective clinical FTE) / 2, each already rounded.
C18_WorkdaysAfterVacationTrip ==
    FactoryBuilt =>
        call.returned.total_number_of_days_per_year
            = workdays_per_year(call.returned.fte_percentage)
              - calculated_vacation_days(call.returned.vacation_category,
                                         call.returned.effective_clinical_fte_percentage)
              - 1800

\* C19: for every admin and research FTE in [0, 1] the admin budget the
\* factory stores is round(255 * 2 * admin FTE) / 2 and the research budget
\* round(255 * 2 * research FTE) / 2, and the half-day count of the annual
\* admin equality is exactly twice the admin budget.
C19_AdminResearchBudgets ==
    FactoryBuilt =>
        /\ call.returned.total_number_of_admin_days_per_year
              = 50 * Round(255 * 2 * call.returned.admin_fte_percentage, 1000)
        /\ call.returned.total_number_of_research_days_per_year
              = 50 * Round(255 * 2 * call.returned.research_fte_percentage, 1000)
        /\ 100 * half_days(call.returned.total_number_of_admin_days_per_year)
              = 2 * call.returned.total_number_of_admin_days_per_year

\* what C20 asks of a Physician
PhysicianValid(p) ==
    /\ \A x \in {p.fte_percentage, p.admin_fte_percentage, p.research_fte_percentage,
                  p.effective_clinical_fte_percentage} : 0 <= x /\ x <= 1000
    /\ p.admin_fte_percentage + p.research_fte_percentage <= p.fte_percentage
    /\ p.effective_clinical_fte_percentage
          - (p.fte_percentage - p.admin_fte_percentage - p.research_fte_percentage)
          \in {0 - 1, 0, 1}
    /\ p.total_number_of_trip_days_per_year = 1800
    /\ strip(p.name) # <<>>

\* the Physician a call tries to construct: the arguments themselves, or what
\* the factory passes on (its own effective clinical FTE, 18 trip days)
Attempted ==
    IF call.op = "Physician" THEN input_data
    ELSE factory_physician(input_data, TemporaryBudgets)

\* C20: a Physician constructed, directly or through the factory, has total,
\* admin, research and effective clinical FTE in [0, 1], admin + research <=
\* total, effective clinical within 0.001 of total - admin - research, 18
\* trip days and a name that is not blank; construction with any of these
\* violated raises an error and yields no Physician.
C20_ConstructedValid ==
    call # NoCall =>
        /\ call.raised = "none" => PhysicianValid(call.returned)
        /\ ~PhysicianValid(Attempted) =>
              call.raised = "ValueError" /\ call.returned = "none"

\* C20 witness: a Physician constructed directly, with admin and research
\* shares and an effective clinical FTE 0.001 off the difference
C20_Witness ==
    /\ call # NoCall
    /\ call.op = "Physician"
    /\ call.raised = "none"
    /\ call.returned.admin_fte_percentage > 0
    /\ call.returned.research_fte_percentage > 0
    /\ call.returned.effective_clinical_fte_percentage
          # call.returned.fte_percentage - call.returned.admin_fte_percentage
            - call.returned.research_fte_percentage

----------------------------------------------------------------------------
(* The objective the orchestrator hands to the solver                      *)

\* C22: no stage that add_all_constraints runs produces a preference penalty,
\* a fairness penalty or a spacing reward, so the model the orchestrator
\* hands to the solver has no objective: it is a pure feasibility problem.
C22_NoTermsNoObjective ==
    /\ call.op \in {"run_scheduler", "solve"}
    /\ call.raised = "none"
    /\ model # NoModel
    => model.objective = NoObjective

----------------------------------------------------------------------------
(* SDO exclusivity from the category stage alone                           *)

\* C26: with only the category-exclusivity stage applied, every satisfying
\* assignment keeps SDO exclusive: for every physician, full-time or
\* part-time, and every half-day slot, the SDO variable and any other role
\* variable of that slot are never both 1.
C26_SdoExclusiveByCategory ==
    (CategoryStageSolved /\ applied = {"one_role"} /\ "SDO" \in input_data.roles) =>
        \A s \in Slots(input_data) : \A r \in input_data.roles \ {"SDO"} :
            ~(Value(var_name(s[1], s[2], s[3], "SDO")) = 1
              /\ Value(var_name(s[1], s[2], s[3], r)) = 1)

\* C26 witness: a part-time physician with SDO, a pathology role and a
\* clinical role in scope is given SDO in a slot by a satisfying assignment
C26_Witness ==
    /\ CategoryStageSolved
    /\ applied = {"one_role"}
    /\ {"SDO", "DP", "OSD"} \subseteq input_data.roles
    /\ \E s \in Slots(input_data) :
           /\ s[1].fte_percentage < 1000
           /\ Value(var_name(s[1], s[2], s[3], "SDO")) = 1

----------------------------------------------------------------------------
(* The OSD, NVC and clinical targets together                              *)

\* a physician whose clinical budget is the OSD budget less the NVC budget,
\* as the factory computes it, with OSD and NVC variables in the model
ClinicIsOsdLessNvc(p) ==
    /\ p.total_number_of_clinical_days_per_year
          = p.total_number_of_osd_days_per_year - p.total_number_of_nvc_days_per_year
    /\ role_vars(input_data, variables, p, "OSD") # {}
    /\ role_vars(input_data, variables, p, "NVC") # {}

\* C27: for a physician whose clinical budget is OSD budget - NVC budget,
\* with OSD and NVC in scope, the annual-target stage leaves a satisfying
\* assignment only if the NVC budget is 0; with a positive NVC budget the
\* model is infeasible.
C27_NvcBudgetInfeasible ==
    "annual" \in applied =>
        \A p \in Range(input_data.physicians) :
            ClinicIsOsdLessNvc(p) =>
                /\ Solutions(model) # {} => p.total_number_of_nvc_days_per_year = 0
                /\ p.total_number_of_nvc_days_per_year > 0 =>
                      /\ Solutions(model) = {}
                      /\ solver # NoSolver => solver.status \in {INFEASIBLE, UNKNOWN}

\* C27 witness: the solver reports infeasible for a physician with one OSD
\* day, half an NVC day and half a clinic day, each of the three counts
\* being within what a one-day calendar can hold
C27_Witness ==
    /\ "annual" \in applied
    /\ solver # NoSolver
    /\ solver.status = INFEASIBLE
    /\ \E p \in Range(input_data.physicians) :
          /\ ClinicIsOsdLessNvc(p)
          /\ p.total_number_of_nvc_days_per_year = 50
          /\ p.total_number_of_osd_days_per_year = 100

----------------------------------------------------------------------------
(* DP coverage and the number of physicians                                *)

\* some calendar day has DP variables for the coverage stage to sum
DpInScope == \E d \in Range(input_data.calendar_days) : InScope(d, HalfDayPeriod, "DP") # {}

\* C28: with DP variables in scope, the model the coverage stage leaves is
\* solved with a satisfying assignment only if the input has at least three physicians:
\* a physician has two DP half-day variables per day, so one or two
\* physicians cannot reach five and the model is infeasible.
C28_DpNeedsThreePhysicians ==
    ("coverage" \in applied /\ DpInScope) =>
        /\ \A d \in Range(input_data.calendar_days) :
              Cardinality(InScope(d, HalfDayPeriod, "DP")) <= 2 * Len(input_data.physicians)
        /\ HasSolution => Len(input_data.physicians) >= 3
        /\ (Len(input_data.physicians) \in {1, 2} /\ solver # NoSolver) =>
              solver.status \in {INFEASIBLE, UNKNOWN}

\* C28 witness: two physicians with all four DP half-day variables of a day
\* in scope, and the solver reporting the model infeasible
C28_Witness ==
    /\ "coverage" \in applied
    /\ Len(input_data.physicians) = 2
    /\ \E d \in Range(input_data.calendar_days) :
           Cardinality(InScope(d, HalfDayPeriod, "DP")) = 4
    /\ solver # NoSolver
    /\ solver.status = INFEASIBLE

----------------------------------------------------------------------------
(* Coverage requirements and the compiled model                            *)

\* SchedulingInput(physicians, calendar_days, roles, coverage_requirements)
WithCoverage(inp, coverage_requirements) ==
    [physicians |-> inp.physicians, calendar_days |-> inp.calendar_days,
     roles |-> inp.roles, coverage_requirements |-> coverage_requirements]

\* requirements the input validation accepts: no maximum, exactly one physician
RequirementChoices == {CoverageRequirement(0, <<>>), CoverageRequirement(1, <<1>>)}

\* one to MaxPhysicians physicians with DP in scope, and one physician with
\* IMF and DPD in scope, on one Monday
RequirementInputs ==
    UNION {{WithCoverage(inp, cov) : cov \in [inp.roles -> RequirementChoices]} :
        inp \in {SchedulingInput(
                    [i \in 1..k |-> Physician(PhysicianNames[i], 1000, ZeroBudgets, {})],
                    Calendar(1, 1), {"DP"}) :
                        k \in {j \in 1..MaxPhysicians : j <= Len(PhysicianNames)}}
                 \cup {SchedulingInput(<<Physician(PhysicianNames[1], 1000, ZeroBudgets, {})>>,
                                       Calendar(1, 1), {"IMF", "DPD"})}}

InitRequirement ==
    \E inp \in RequirementInputs : \E vs \in VariableSpaces(inp) : InitBuilder(inp, vs)

NextRequirement ==
    \/ add_one_role_per_day_constraints
    \/ add_unavailability_constraints
    \/ add_coverage_constraints
    \/ add_annual_target_constraints
    \/ Solve

SpecRequirement == InitRequirement /\ [][NextRequirement]_vars

\* the model the stages named compile from an input and a variable dict
StageModel(inp, vs, stages) ==
    Extend(NewModel(vs),
           IF "one_role" \in stages
           THEN UNION {category_vars(vs, s[1], s[2], s[3]) : s \in Slots(inp)} ELSE {},
           (IF "one_role" \in stages
            THEN non_dp_constraints(inp, vs) \cup category_link_constraints(inp, vs)
                     \cup one_category_constraints(inp, vs)
            ELSE {})
           \cup (IF "unavailability" \in stages THEN unavailability_constraints(inp, vs) ELSE {})
           \cup (IF "coverage" \in stages THEN coverage_constraints(inp, vs) ELSE {})
           \cup (IF "annual" \in stages
                 THEN annual_equality_constraints(inp, vs) \cup annual_upper_constraints(inp, vs)
                 ELSE {}))

\* how many physicians hold role r in some half-day of day d in the solution
PhysiciansOn(d, r) ==
    Cardinality({p \in Range(input_data.physicians) :
                    \E per \in HalfDayPeriod :
                        /\ var_name(p, d, per, r) \in variables
                        /\ Value(var_name(p, d, per, r)) = 1})

\* C29: the model the stages compile does not depend on the per-role
\* CoverageRequirement values: whatever stages have run, the model is the one
\* the same stages compile from the input with any other min/max values, so
\* the satisfying assignments are the same.
C29_RequirementsNotCompiled ==
    \A cov \in [input_data.roles -> RequirementChoices] :
        model = StageModel(WithCoverage(input_data, cov), variables, applied)

\* C29 witness: a solved schedule after the coverage stage with three
\* physicians on DP on a day although the requirement of DP allows one
C29_Witness ==
    /\ "coverage" \in applied
    /\ HasSolution
    /\ "DP" \in input_data.roles
    /\ input_data.coverage_requirements["DP"] = CoverageRequirement(1, <<1>>)
    /\ \E d \in Range(input_data.calendar_days) : PhysiciansOn(d, "DP") = 3

----------------------------------------------------------------------------
(* extract_solution under any sequence of calls                            *)

\* no call has completed since the last solve other than extract_solution:
\* the solver values are those of the current model and variables
SolveIsFresh ==
    /\ solver # NoSolver
    /\ call.completed \in {"solve", "extract_solution"}

----------------------------------------------------------------------------
(* ConstraintBuilder.add_fairness_constraints                              *)

\* ConstraintBuilder._get_annual_target_for_role: the target in half-days as
\* the quotient <<numerator, denominator>>, budgets being hundredths of a day
get_annual_target_for_role(inp, physician, role) ==
    CASE role = "OSD"      -> <<2 * physician.total_number_of_osd_days_per_year, 100>>
      [] role = "NVC"      -> <<2 * physician.total_number_of_nvc_days_per_year, 100>>
      [] role = "ADMIN"    -> <<2 * physician.total_number_of_admin_days_per_year, 100>>
      [] role = "SDO"      -> <<2 * physician.total_number_of_sdo_days_per_year, 100>>
      [] role = "VACATION" -> <<2 * physician.total_number_of_vacation_days_per_year, 100>>
      [] role = "TRIP"     -> <<max_trip_days, 1>>
      [] OTHER ->
            IF role \in get_roles_by_category(PATHOLOGY)
            THEN <<2 * physician.total_number_of_pathology_days_per_year, 100>>
            ELSE IF role \in get_roles_by_category(CLINICAL)
            THEN <<2 * physician.total_number_of_clinical_days_per_year, 100>>
            ELSE <<2 * physician.total_number_of_days_per_year,
                   100 * Cardinality(work_roles(inp))>>

\* sum(physician.fte_percentage for physician in physicians), in thousandths
total_fte(inp) == SumFn([i \in 1..Len(inp.physicians) |-> inp.physicians[i].fte_percentage])

\* total_role_target: the sum of the physicians' targets of a role (the
\* targets of one role have one denominator)
total_role_target(inp, role) ==
    <<SumFn([i \in 1..Len(inp.physicians) |->
                get_annual_target_for_role(inp, inp.physicians[i], role)[1]]),
      get_annual_target_for_role(inp, inp.physicians[1], role)[2]>>

\* the share computed from the total target of the role, over the
\* denominator of fair_share
fair_share_of_total(inp, physician, role) ==
    <<total_role_target(inp, role)[1] * physician.fte_percentage,
      total_role_target(inp, role)[2] * total_fte(inp)>>

\* fair_share = (annual_target * physician.fte_percentage) / total_fte
fair_share(inp, physician, role) ==
    <<get_annual_target_for_role(inp, physician, role)[1] * physician.fte_percentage,
      get_annual_target_for_role(inp, physician, role)[2] * total_fte(inp)>>

\* max_deviation = int(total_role_target * 2)
max_deviation(inp, role) ==
    IntTrunc(2 * total_role_target(inp, role)[1], total_role_target(inp, role)[2])

\* fair_share_int = int(fair_shares[physician.name] * 2)
fair_share_int(inp, physician, role) ==
    IntTrunc(2 * fair_share(inp, physician, role)[1], fair_share(inp, physician, role)[2])

\* f"{physician.name}_{role.value}_fairness_deviation"
deviation_var_name(physician, role) ==
    physician.name \o RoleValue(role) \o <<"fairness", "deviation">>

\* f"{physician.name}_{role.value}_fairness_penalty"
penalty_var_name(physician, role) ==
    physician.name \o RoleValue(role) \o <<"fairness", "penalty">>

\* the (physician, role) pairs the stage creates a deviation and a penalty for
fairness_pairs(inp, vs) ==
    {pr \in Range(inp.physicians) \X (inp.roles \ {"VACATION", "TRIP", "SDO"}) :
        /\ total_role_target(inp, pr[2])[1] > 0
        /\ role_vars(inp, vs, pr[1], pr[2]) # {}}

\* NewIntVar(-max_deviation, max_deviation, ...), NewIntVar(0, max_deviation, ...)
fairness_int_vars(inp, vs) ==
    [v \in {deviation_var_name(pr[1], pr[2]) : pr \in fairness_pairs(inp, vs)} |->
        LET pr == CHOOSE x \in fairness_pairs(inp, vs) : deviation_var_name(x[1], x[2]) = v
        IN  <<-max_deviation(inp, pr[2]), max_deviation(inp, pr[2])>>]
    @@ [v \in {penalty_var_name(pr[1], pr[2]) : pr \in fairness_pairs(inp, vs)} |->
        LET pr == CHOOSE x \in fairness_pairs(inp, vs) : penalty_var_name(x[1], x[2]) = v
        IN  <<0, max_deviation(inp, pr[2])>>]

\* model.Add(deviation_var == sum(actual_assignments) - fair_share_int)
\* model.Add(penalty_var >= deviation_var), model.Add(penalty_var >= -deviation_var)
fairness_constraints(inp, vs) ==
    UNION {LET dev == deviation_var_name(pr[1], pr[2])
               pen == penalty_var_name(pr[1], pr[2])
               actual == role_vars(inp, vs, pr[1], pr[2])
           IN  {Linear((dev :> 1) @@ [v \in actual |-> -1], "==",
                       -fair_share_int(inp, pr[1], pr[2])),
                Linear((pen :> 1) @@ (dev :> -1), ">=", 0),
                Linear((pen :> 1) @@ (dev :> 1), ">=", 0)}
           : pr \in fairness_pairs(inp, vs)}

fairness_weight == 5

\* self.fairness_penalties: (penalty_var, fairness_weight) for every pair
fairness_penalties(inp, vs) ==
    {<<penalty_var_name(pr[1], pr[2]), fairness_weight>> : pr \in fairness_pairs(inp, vs)}

add_fairness_constraints ==
    /\ model # NoModel
    /\ "fairness" \notin applied
    /\ model' = Extend(NewIntVars(model, fairness_int_vars(input_data, variables)), {},
                       fairness_constraints(input_data, variables))
    /\ terms' = [terms EXCEPT !.fairness_penalties = fairness_penalties(input_data, variables)]
    /\ applied' = applied \cup {"fairness"}
    /\ UNCHANGED <<input_data, variables, solver, call>>

----------------------------------------------------------------------------
(* ConstraintBuilder.create_objective_function                             *)

\* the bound of NewIntVar(-1000000, 1000000, 'objective')
objective_bound == 1000000

\* sum(weighted_penalties): weight * penalty_var for the fairness penalties,
\* -reward_var for the spacing rewards
weighted_penalties(t) ==
    [v \in {x[1] : x \in t.fairness_penalties} |->
        (CHOOSE x \in t.fairness_penalties : x[1] = v)[2]]
    @@ [v \in t.spacing_rewards |-> -1]

\* objective = NewIntVar(-1000000, 1000000, 'objective');
\* model.Add(objective == sum(weighted_penalties)); model.Minimize(objective)
objective_created(m, t) ==
    IF DOMAIN weighted_penalties(t) = {} THEN m
    ELSE MinimizeLinear(
             Extend(m, {}, {Linear(weighted_penalties(t), ">=", -objective_bound),
                            Linear(weighted_penalties(t), "<=", objective_bound)}),
             weighted_penalties(t))

create_objective_function ==
    /\ model # NoModel
    /\ model' = objective_created(model, terms)
    /\ UNCHANGED <<input_data, variables, solver, applied, call, terms>>

----------------------------------------------------------------------------
(* Fairness                                                                *)

\* admin budgets of 0, 0.5 and 1 day
FairnessBudgets == {0, 50, 100}

\* a full-time first physician and a full-time or half-time second one, each
\* with an admin budget; 1.0 and 0.5 are exact as floats, so the quotients the
\* stage truncates are the exact ones
FairnessInputs ==
    {SchedulingInput(<<Physician(PhysicianNames[1], 1000, [ZeroBudgets EXCEPT !.admin = b1], {}),
                       Physician(PhysicianNames[2], fte, [ZeroBudgets EXCEPT !.admin = b2], {})>>,
                     Calendar(1, 1), {"ADMIN"}) :
        fte \in {1000, 500}, b1 \in FairnessBudgets, b2 \in FairnessBudgets}

InitFairness ==
    \E inp \in FairnessInputs : \E vs \in VariableSpaces(inp) : InitBuilder(inp, vs)

NextFairness == add_fairness_constraints \/ create_objective_function \/ Solve

SpecFairness == InitFairness /\ [][NextFairness]_vars

Abs(x) == IF x < 0 THEN -x ELSE x

\* the number of half-days of a role a physician holds under assignment a
ActualCount(a, physician, role) ==
    Cardinality({k \in role_vars(input_data, variables, physician, role) : a[k] = 1})

\* C21: with the fairness stage and its objective on a two-physician model,
\* at every optimal solution the fairness penalty of each physician and role
\* equals the absolute value of the actual half-day count less the
\* physician's fair share in half-days.
C21_PenaltyIsAbsoluteDeviation ==
    ("fairness" \in applied /\ "linear" \in DOMAIN model.objective /\ solver = NoSolver) =>
        \A sv \in CpSolver_Solve(model) :
            sv.status = OPTIMAL =>
                \A pr \in fairness_pairs(input_data, variables) :
                    LET share == fair_share(input_data, pr[1], pr[2])
                    IN  sv.values[penalty_var_name(pr[1], pr[2])] * share[2]
                            = Abs(ActualCount(sv.values, pr[1], pr[2]) * share[2] - share[1])

\* the deviation constraints of a physician and role in the model
DeviationConstraints(physician, role) ==
    {c \in model.constraints :
        c.rel = "==" /\ deviation_var_name(physician, role) \in DOMAIN c.coef}

\* C24: for every role outside VACATION, TRIP and SDO and every physician,
\* the fair share in the deviation constraint is the role's total annual
\* target times the physician's FTE over the total FTE, and the fair shares
\* of a role over all physicians sum to the role's total annual target.
C24_FairShareOfTotal ==
    "fairness" \in applied =>
        \A pr \in fairness_pairs(input_data, variables) :
            LET claimed == fair_share_of_total(input_data, pr[1], pr[2])
                used == fair_share(input_data, pr[1], pr[2])
                total == total_role_target(input_data, pr[2])
            IN  /\ used = claimed
                /\ \A c \in DeviationConstraints(pr[1], pr[2]) :
                       c.rhs = -IntTrunc(2 * claimed[1], claimed[2])
                /\ SumFn([i \in 1..Len(input_data.physicians) |->
                            fair_share(input_data, input_data.physicians[i], pr[2])[1]])
                    = total[1] * total_fte(input_data)

----------------------------------------------------------------------------
(* ConstraintBuilder.add_temporal_spacing_constraints                      *)

spacing_weight == 5

\* ConstraintBuilder._get_role_weight: 1 for every role
get_role_weight(role) == 1

\* str(i) for the list positions 0 to 9
Str == <<"0", "1", "2", "3", "4", "5", "6", "7", "8", "9">>

\* role_assignments and assignment_days: the variables of a physician and
\* role that are in the dict, by day and within a day morning first, each
\* with the index of its day
role_assignments(inp, vs, physician, role) ==
    SelectSeq([k \in 1..(2 * Len(inp.calendar_days)) |->
                  [day |-> (k - 1) \div 2,
                   var |-> var_name(physician, inp.calendar_days[(k - 1) \div 2 + 1],
                                    IF k % 2 = 1 THEN MORNING ELSE AFTERNOON, role)]],
              LAMBDA s : s.var \in vs)

\* f"{physician.name}_{role.value}_min_distance"
min_distance_var_name(physician, role) ==
    physician.name \o RoleValue(role) \o <<"min", "distance">>

\* f"{physician.name}_{role.value}_both_active_{i}_{j}": i and j here are list
\* positions from 1, the names carry them from 0
both_active_var_name(physician, role, i, j) ==
    physician.name \o RoleValue(role) \o <<"both", "active", Str[i], Str[j]>>

\* f"{physician.name}_{role.value}_distance_{i}_{j}"
distance_var_name(physician, role, i, j) ==
    physician.name \o RoleValue(role) \o <<"distance", Str[i], Str[j]>>

\* f"{physician.name}_{role.value}_spacing_reward"
reward_var_name(physician, role) ==
    physician.name \o RoleValue(role) \o <<"spacing", "reward">>

\* the (physician, role) pairs with more than one variable in the dict
spacing_pairs(inp, vs) ==
    {pr \in Range(inp.physicians) \X (inp.roles \ {"VACATION", "TRIP", "SDO"}) :
        Len(role_assignments(inp, vs, pr[1], pr[2])) > 1}

\* for i in range(len - 1): for j in range(i + 1, len), as list positions from 1
slot_pairs(inp, vs, physician, role) ==
    {ij \in (1..Len(role_assignments(inp, vs, physician, role)))
            \X (1..Len(role_assignments(inp, vs, physician, role))) : ij[1] < ij[2]}

\* max_possible_distance = len(self.input_data.calendar_days)
max_possible_distance(inp) == Len(inp.calendar_days)

spacing_bool_vars(inp, vs) ==
    UNION {{both_active_var_name(pr[1], pr[2], ij[1], ij[2]) :
                ij \in slot_pairs(inp, vs, pr[1], pr[2])} : pr \in spacing_pairs(inp, vs)}

spacing_int_vars(inp, vs) ==
    [v \in UNION {{distance_var_name(pr[1], pr[2], ij[1], ij[2]) :
                      ij \in slot_pairs(inp, vs, pr[1], pr[2])} : pr \in spacing_pairs(inp, vs)}
              \cup {min_distance_var_name(pr[1], pr[2]) : pr \in spacing_pairs(inp, vs)} |->
        <<0, max_possible_distance(inp)>>]
    @@ [v \in {reward_var_name(pr[1], pr[2]) : pr \in spacing_pairs(inp, vs)} |->
        LET pr == CHOOSE x \in spacing_pairs(inp, vs) : reward_var_name(x[1], x[2]) = v
        IN  <<0, max_possible_distance(inp) * get_role_weight(pr[2]) * spacing_weight>>]

\* the constraints of one pair of slots without the upper bound that holds
\* the distance variable to the distance when both are active
pair_constraints_unbounded(inp, vs, physician, role, i, j) ==
    LET slots == role_assignments(inp, vs, physician, role)
        distance == slots[j].day - slots[i].day
        both == both_active_var_name(physician, role, i, j)
        dvar == distance_var_name(physician, role, i, j)
        M == max_possible_distance(inp)
    IN  {Linear((both :> 1) @@ (slots[i].var :> -1), "<=", 0),
         Linear((both :> 1) @@ (slots[j].var :> -1), "<=", 0),
         Linear((both :> 1) @@ (slots[i].var :> -1) @@ (slots[j].var :> -1), ">=", -1),
         Linear((dvar :> 1) @@ (both :> -M), ">=", distance - M),
         Linear(dvar :> 1, "<=", M),
         Linear((min_distance_var_name(physician, role) :> 1) @@ (dvar :> -1), "<=", 0)}

\* both_active <= a_i, both_active <= a_j, both_active >= a_i + a_j - 1,
\* distance_var >= distance - M * (1 - both_active),
\* distance_var <= distance + M * (1 - both_active), distance_var <= M,
\* min_distance_var <= distance_var
pair_constraints(inp, vs, physician, role, i, j) ==
    LET slots == role_assignments(inp, vs, physician, role)
        distance == slots[j].day - slots[i].day
        both == both_active_var_name(physician, role, i, j)
        dvar == distance_var_name(physician, role, i, j)
        M == max_possible_distance(inp)
    IN  {Linear((both :> 1) @@ (slots[i].var :> -1), "<=", 0),
         Linear((both :> 1) @@ (slots[j].var :> -1), "<=", 0),
         Linear((both :> 1) @@ (slots[i].var :> -1) @@ (slots[j].var :> -1), ">=", -1),
         Linear((dvar :> 1) @@ (both :> -M), ">=", distance - M),
         Linear((dvar :> 1) @@ (both :> M), "<=", distance + M),
         Linear(dvar :> 1, "<=", M),
         Linear((min_distance_var_name(physician, role) :> 1) @@ (dvar :> -1), "<=", 0)}

\* model.Add(reward_var == min_distance_var * role_weight * spacing_weight)
spacing_constraints(inp, vs) ==
    UNION {UNION {pair_constraints(inp, vs, pr[1], pr[2], ij[1], ij[2]) :
                    ij \in slot_pairs(inp, vs, pr[1], pr[2])}
           \cup {Linear((reward_var_name(pr[1], pr[2]) :> 1)
                        @@ (min_distance_var_name(pr[1], pr[2])
                               :> -(get_role_weight(pr[2]) * spacing_weight)), "==", 0)}
           : pr \in spacing_pairs(inp, vs)}

\* the rewards kept only while no fairness penalty has been collected, as if
\* the two stages shared one list
spacing_rewards_shared(inp, vs) ==
    IF terms.fairness_penalties # {} THEN {}
    ELSE {reward_var_name(pr[1], pr[2]) : pr \in spacing_pairs(inp, vs)}

\* self.spacing_rewards
spacing_rewards(inp, vs) == {reward_var_name(pr[1], pr[2]) : pr \in spacing_pairs(inp, vs)}

add_temporal_spacing_constraints ==
    /\ model # NoModel
    /\ "spacing" \notin applied
    /\ model' = Extend(NewIntVars(model, spacing_int_vars(input_data, variables)),
                       spacing_bool_vars(input_data, variables),
                       spacing_constraints(input_data, variables))
    /\ terms' = [terms EXCEPT !.spacing_rewards = spacing_rewards(input_data, variables)]
    /\ applied' = applied \cup {"spacing"}
    /\ UNCHANGED <<input_data, variables, solver, call>>

----------------------------------------------------------------------------
(* Temporal spacing                                                        *)

\* the days of the calendar, and the most keys a variable dict holds
MaxSpacingSlots == 3

\* one physician and one role over MaxSpacingSlots days
SpacingInput ==
    SchedulingInput(<<Physician(PhysicianNames[1], 1000, ZeroBudgets, {})>>,
                    Calendar(1, MaxSpacingSlots), {"ADMIN"})

\* dicts holding some of the (physician, day, period, role) keys, and the
\* scheduler's dict
SpacingVariableSpaces ==
    {vs \in SUBSET period_variables(SpacingInput) : Cardinality(vs) <= MaxSpacingSlots}
    \cup {scheduler_variables(SpacingInput)}

InitSpacing == \E vs \in SpacingVariableSpaces : InitBuilder(SpacingInput, vs)

NextSpacing == add_temporal_spacing_constraints \/ create_objective_function \/ Solve

SpecSpacing == InitSpacing /\ [][NextSpacing]_vars

\* the pairs of candidate slots of a physician and role both assigned under a
ActivePairs(a, physician, role) ==
    {ij \in slot_pairs(input_data, variables, physician, role) :
        LET slots == role_assignments(input_data, variables, physician, role)
        IN  a[slots[ij[1]].var] = 1 /\ a[slots[ij[2]].var] = 1}

\* the day-index gap of a pair of candidate slots
Gap(physician, role, ij) ==
    LET slots == role_assignments(input_data, variables, physician, role)
    IN  slots[ij[2]].day - slots[ij[1]].day

\* the smallest gap over the pairs both assigned, the calendar length if none
SmallestGap(a, physician, role) ==
    IF ActivePairs(a, physician, role) = {} THEN Len(input_data.calendar_days)
    ELSE CHOOSE g \in {Gap(physician, role, ij) : ij \in ActivePairs(a, physician, role)} :
            \A ij \in ActivePairs(a, physician, role) : g <= Gap(physician, role, ij)

\* C25: after the spacing stage, in every satisfying assignment and for every
\* pair of candidate slots of a physician and role, the both-active indicator
\* is 1 exactly when both role variables are 1 and the distance variable is
\* the day-index distance whenever it is 1; the minimum-distance variable is
\* at most the smallest gap over the pairs of assigned slots (the calendar
\* length with fewer than two assigned), and for every choice of assigned
\* slots some satisfying assignment gives it exactly that value.
C25_SpacingDistances ==
    /\ ("spacing" \in applied /\ HasSolution) =>
          \A pr \in spacing_pairs(input_data, variables) :
              /\ \A ij \in slot_pairs(input_data, variables, pr[1], pr[2]) :
                    /\ Value(both_active_var_name(pr[1], pr[2], ij[1], ij[2])) = 1
                          <=> ij \in ActivePairs(solver.values, pr[1], pr[2])
                    /\ ij \in ActivePairs(solver.values, pr[1], pr[2]) =>
                          Value(distance_var_name(pr[1], pr[2], ij[1], ij[2]))
                              = Gap(pr[1], pr[2], ij)
              /\ Value(min_distance_var_name(pr[1], pr[2]))
                    <= SmallestGap(solver.values, pr[1], pr[2])
    /\ ("spacing" \in applied /\ solver = NoSolver) =>
          \A pr \in spacing_pairs(input_data, variables) :
              \A x \in [role_vars(input_data, variables, pr[1], pr[2]) -> {0, 1}] :
                  \E a \in Solutions(model) :
                      /\ \A k \in DOMAIN x : a[k] = x[k]
                      /\ a[min_distance_var_name(pr[1], pr[2])] = SmallestGap(x, pr[1], pr[2])

\* C25 witness: three candidate slots on three days, the first and the last
\* assigned and the middle one not: the minimum distance is 2, the gap of the
\* one pair that is assigned
C25_Witness ==
    /\ "spacing" \in applied
    /\ HasSolution
    /\ \E pr \in spacing_pairs(input_data, variables) :
          LET slots == role_assignments(input_data, variables, pr[1], pr[2])
          IN  /\ Len(slots) = 3
              /\ slots[1].day = 0 /\ slots[2].day = 1 /\ slots[3].day = 2
              /\ Value(slots[1].var) = 1 /\ Value(slots[2].var) = 0 /\ Value(slots[3].var) = 1
              /\ Value(min_distance_var_name(pr[1], pr[2])) = 2
              /\ Value(distance_var_name(pr[1], pr[2], 1, 3)) = 2

----------------------------------------------------------------------------
(* The stages in any order                                                 *)

\* the stages of the builder that compile constraints
SevenStages ==
    {"one_role", "unavailability", "sdo", "coverage", "annual", "fairness", "spacing"}

\* a full-time physician unavailable on the first day and a part-time one,
\* each with an admin and a pathology budget of half a day
OrderPhysicians ==
    <<Physician(PhysicianNames[1], 1000,
                [ZeroBudgets EXCEPT !.admin = 50, !.pathology = 50, !.total = 100], {1}),
      Physician(PhysicianNames[2], 800,
                [ZeroBudgets EXCEPT !.admin = 50, !.pathology = 50, !.total = 100, !.sdo = 50],
                {})>>

OrderScopes == {{"ADMIN", "SDO"}, {"DP", "DPD", "ADMIN"}, {"ADMIN", "VACATION", "OSD"}}

OrderInputs ==
    {SchedulingInput(OrderPhysicians, Calendar(1, n), roles) :
        n \in 1..MaxDays, roles \in OrderScopes}

InitOrder == \E inp \in OrderInputs : \E vs \in VariableSpaces(inp) : InitBuilder(inp, vs)

NextOrder ==
    \/ add_one_role_per_day_constraints
    \/ add_unavailability_constraints
    \/ add_sdo_constraints
    \/ add_coverage_constraints
    \/ add_annual_target_constraints
    \/ add_fairness_constraints
    \/ add_temporal_spacing_constraints

SpecOrder == InitOrder /\ [][NextOrder]_vars

\* the model the stages named compile when run in the order of
\* add_all_constraints, the commented-out ones included
OrderedModel(inp, vs, stages) ==
    LET m1 == StageModel(inp, vs, stages)
        m2 == IF "sdo" \in stages
              THEN Extend(m1, {}, sdo_target_constraints(inp, vs)
                                      \cup sdo_exclusion_constraints(inp, vs))
              ELSE m1
        m3 == IF "fairness" \in stages
              THEN Extend(NewIntVars(m2, fairness_int_vars(inp, vs)), {},
                          fairness_constraints(inp, vs))
              ELSE m2
    IN  IF "spacing" \in stages
        THEN Extend(NewIntVars(m3, spacing_int_vars(inp, vs)), spacing_bool_vars(inp, vs),
                    spacing_constraints(inp, vs))
        ELSE m3

\* the penalty and reward lists the stages named collect
OrderedTerms(inp, vs, stages) ==
    [fairness_penalties |-> IF "fairness" \in stages THEN fairness_penalties(inp, vs) ELSE {},
     spacing_rewards |-> IF "spacing" \in stages THEN spacing_rewards(inp, vs) ELSE {}]

\* C23: for one input and variable dict, whatever the order in which the
\* stages (category exclusivity, unavailability, SDO, coverage, annual
\* targets, fairness, spacing) are applied, the model is the one the same
\* stages compile in the order of add_all_constraints, so it has the same
\* satisfying assignments, and the collected penalty and reward terms are the
\* same.
C23_StageOrderIrrelevant ==
    /\ model = OrderedModel(input_data, variables, applied)
    /\ terms = OrderedTerms(input_data, variables, applied)

\* C23 witness: all seven stages applied to a (physician, day, period, role)
\* dict, with fairness penalties and spacing rewards collected and
\* constraints of the category, unavailability and SDO stages in the model
C23_Witness ==
    /\ applied = SevenStages
    /\ PeriodIndexed
    /\ input_data.roles = {"ADMIN", "SDO"}
    /\ terms.fairness_penalties # {}
    /\ terms.spacing_rewards # {}
    /\ unavailability_constraints(input_data, variables) # {}
    /\ sdo_exclusion_constraints(input_data, variables) \subseteq model.constraints
    /\ sdo_exclusion_constraints(input_data, variables) # {}

====
